---- MODULE Spec2Model ----
(***************************************************************************)
(* Station clustering (webapp/scripts/generate-station-groups.js, the      *)
(* union-find / sorted-queue complete-linkage groupStations) and ranked    *)
(* search over the resulting groups (webapp/src/utils/                     *)
(* searchInStationGroups.js).                                              *)
(*                                                                         *)
(* Strings are sequences of one-character strings.  Numbers that the code  *)
(* keeps as IEEE doubles are records [k, v]: a finite number, NaN or       *)
(* Infinity, so that the code's comparisons with NaN can be modelled.      *)
(* calculateDistance is the squared planar distance on a small grid, a     *)
(* monotone image of the great-circle distance between nearby points:      *)
(* the code only ever orders distances and compares them with the          *)
(* threshold, which is given in the same unit.                             *)
(***************************************************************************)
EXTENDS Integers, Sequences, FiniteSets, TLC

VARIABLES
    pc,               \* position of the run
    stops,            \* input mapping stop_id -> stop, as the sequence Object.entries gives
    maxDistance,      \* threshold D
    stopsArray,       \* valid stations with parsed lat / lon
    mergeQueue,       \* candidate pairs {i, j, dist}, sorted by dist
    processed,        \* number of queue entries the merge loop has taken
    parent,           \* union-find parent pointers
    clusterStations,  \* per root: the station indices of its cluster
    groups,           \* output of groupStations
    searchTerm,       \* searchStationGroups: query
    limit,            \* searchStationGroups: limit
    results,          \* searchStationGroups: returned list
    cluster,          \* one entry of clusterMap: the stations of a cluster
    commonPrefix,     \* longestCommonPrefix of the cluster's names
    otherTerm,        \* the query of a second call of searchStationGroups
    otherResults,     \* the list the second call returned
    stopsFile,        \* stops.json at the two places main looks for it
    stopsData,        \* main: the parsed content of stops.json
    outputFile,       \* station-groups.json at the two places main writes it
    runningInDocker,  \* main: whether public/data/stops.json exists
    exitCode,         \* main: exit status of the script, once it has ended
    clusters,         \* greedy variant: the clusters, as lists of indices of stopsArray
    maxDistCache,     \* greedy variant: the Map from cache key to complete-linkage distance
    best,             \* greedy variant: bestI, bestJ, bestDist of the current iteration
    greedyGroups,     \* greedy variant: output of groupStations
    trips,            \* App: the values of the trips object
    tripStops,        \* App: the values of the tripStops object
    selectedStationGroups,  \* App: the selection
    filteredTrips,    \* App: the trips shown, each with its stops
    groupingEnabled,  \* App: whether groups or single stations are offered
    isRestoredRef,    \* App: isRestoredRef.current
    storage,          \* localStorage item 'selectedStationGroups'
    setItemThrows,    \* localStorage: whether setItem throws (storage full or disabled)
    calls             \* which of the two localStorage utilities have been called

vars == <<pc, stops, maxDistance, stopsArray, mergeQueue, processed, parent,
          clusterStations, groups, searchTerm, limit, results,
          cluster, commonPrefix, otherTerm, otherResults,
          stopsFile, stopsData, outputFile, runningInDocker, exitCode,
          clusters, maxDistCache, best, greedyGroups,
          trips, tripStops, selectedStationGroups, filteredTrips, groupingEnabled,
          isRestoredRef, storage, setItemThrows, calls>>

synthVars == <<cluster, commonPrefix>>

callerVars == <<otherTerm, otherResults>>

mainVars == <<stopsFile, stopsData, outputFile, runningInDocker, exitCode>>

greedyVars == <<clusters, maxDistCache, best, greedyGroups>>

appVars == <<trips, tripStops, selectedStationGroups, filteredTrips, groupingEnabled,
             isRestoredRef, storage, setItemThrows, calls>>

\* the parts of the state that belong to code that is not running
SynthIdle == cluster = <<>> /\ commonPrefix = <<>>

CallerIdle == otherTerm = <<>> /\ otherResults = <<>>

GreedyIdle ==
    /\ clusters = <<>>
    /\ maxDistCache = <<>>
    /\ best = <<>>
    /\ greedyGroups = <<>>

MainIdle ==
    /\ stopsFile = <<>>
    /\ stopsData = <<>>
    /\ outputFile = <<>>
    /\ runningInDocker = FALSE
    /\ exitCode = 0

AppIdle ==
    /\ trips = <<>>
    /\ tripStops = <<>>
    /\ selectedStationGroups = <<>>
    /\ filteredTrips = <<>>
    /\ groupingEnabled = TRUE
    /\ isRestoredRef = FALSE
    /\ storage = <<>>
    /\ setItemThrows = FALSE
    /\ calls = {}

clusterVars == <<stops, maxDistance, stopsArray, mergeQueue, processed, parent,
                 clusterStations>>

(***************************************************************************)
(* Bounds                                                                  *)
(***************************************************************************)
NumStations == 4
MaxGroups == 3
MaxCluster == 3
MaxFileStops == 1

(***************************************************************************)
(* Strings                                                                 *)
(***************************************************************************)
\* The characters in use, in UTF-16 code unit order.
CharOrder ==
    <<" ", "(", ")", ",", ".", "1", "2", "3", "4", "5", "6", "A", "B", "C",
      "E", "T", "a", "b", "c", "d", "e", "i", "l", "n", "o", "r", "s", "t", "u">>

Code(c) == CHOOSE i \in DOMAIN CharOrder : CharOrder[i] = c

Min(S) == CHOOSE x \in S : \A y \in S : x <= y

\* String.prototype.toLowerCase
LowerChar(c) ==
    CASE c = "A" -> "a"
      [] c = "B" -> "b"
      [] c = "C" -> "c"
      [] c = "E" -> "e"
      [] c = "T" -> "t"
      [] OTHER -> c

toLowerCase(s) == [k \in 1..Len(s) |-> LowerChar(s[k])]

\* The comparison of the default Array.prototype.sort: by code units.
StrLess(a, b) ==
    LET n == IF Len(a) < Len(b) THEN Len(a) ELSE Len(b)
        diff == {k \in 1..n : a[k] # b[k]}
    IN  IF diff = {} THEN Len(a) < Len(b)
        ELSE Code(a[Min(diff)]) < Code(b[Min(diff)])

\* String.prototype.localeCompare: letters compare without case first, and
\* at equal letters the lower-case form comes first.
localeCompare(a, b) ==
    LET la == toLowerCase(a)
        lb == toLowerCase(b)
    IN  IF la # lb THEN (IF StrLess(la, lb) THEN -1 ELSE 1)
        ELSE IF a = b THEN 0
        ELSE LET k == Min({x \in 1..Len(a) : a[x] # b[x]})
             IN  IF a[k] = LowerChar(a[k]) THEN -1 ELSE 1

\* Array.prototype.sort is stable; with a consistent comparator the result
\* is the one arrangement in which every element follows all elements that
\* are less, and all equal elements that came before it.
StableSort(s, Less(_, _)) ==
    LET Rank(i) == Cardinality({j \in 1..Len(s) :
                        Less(s[j], s[i]) \/ (~Less(s[i], s[j]) /\ j < i)}) + 1
    IN  [k \in 1..Len(s) |-> s[CHOOSE i \in 1..Len(s) : Rank(i) = k]]

\* String.prototype.trimEnd: only the trailing white space goes
trimEnd(s) ==
    LET keep == {k \in 1..Len(s) : s[k] # " "}
    IN  IF keep = {} THEN <<>>
        ELSE SubSeq(s, 1, CHOOSE k \in keep : \A x \in keep : x <= k)

\* String.prototype.trim
trim(s) ==
    LET keep == {k \in 1..Len(s) : s[k] # " "}
    IN  IF keep = {} THEN <<>>
        ELSE SubSeq(s, Min(keep), CHOOSE k \in keep : \A x \in keep : x <= k)

\* String.prototype.startsWith / includes
startsWith(s, q) == Len(q) <= Len(s) /\ SubSeq(s, 1, Len(q)) = q

includes(s, q) ==
    \E k \in 0..(Len(s) - Len(q)) : SubSeq(s, k + 1, k + Len(q)) = q

(***************************************************************************)
(* Numbers                                                                 *)
(***************************************************************************)
Num(v) == [k |-> "num", v |-> v]
NaN == [k |-> "nan", v |-> 0]
Infinity == [k |-> "inf", v |-> 0]

Digits == <<"0", "1", "2", "3", "4", "5", "6", "7", "8", "9">>

\* parseFloat of a coordinate as stops.json gives it
parseFloat(raw) ==
    IF \E d \in DOMAIN Digits : Digits[d] = raw
    THEN Num((CHOOSE d \in DOMAIN Digits : Digits[d] = raw) - 1)
    ELSE IF raw = "Infinity" THEN Infinity
    ELSE NaN

isNaN(x) == x.k = "nan"

\* x <= D and x > D on doubles, D finite: both false when x is NaN
LessEq(x, D) == x.k = "num" /\ x.v <= D
Greater(x, D) == x.k = "inf" \/ (x.k = "num" /\ x.v > D)

(***************************************************************************)
(* generate-station-groups.js                                              *)
(***************************************************************************)
\* calculateDistance: a coordinate that is not finite gives NaN
calculateDistance(station1, station2) ==
    IF /\ station1.lat.k = "num" /\ station1.lon.k = "num"
       /\ station2.lat.k = "num" /\ station2.lon.k = "num"
    THEN Num((station1.lat.v - station2.lat.v) * (station1.lat.v - station2.lat.v)
           + (station1.lon.v - station2.lon.v) * (station1.lon.v - station2.lon.v))
    ELSE NaN

\* the filter of stopsArray
ValidCoords(stop) == ~isNaN(stop.lat) /\ ~isNaN(stop.lon)

\* stopsArray without the filter of invalid coordinates
BuildStopsArrayNoFilter(entries) ==
    [k \in 1..Len(entries) |->
        [stop_id      |-> entries[k].stop_id,
         stop_name    |-> entries[k].stop_name,
         stop_country |-> entries[k].stop_country,
         lat          |-> parseFloat(entries[k].stop_lat),
         lon          |-> parseFloat(entries[k].stop_lon)]]

\* stopsArray: Object.entries(stops).map(parse).filter(valid)
BuildStopsArray(entries) ==
    LET parsed == [k \in 1..Len(entries) |->
                     [stop_id      |-> entries[k].stop_id,
                      stop_name    |-> entries[k].stop_name,
                      stop_country |-> entries[k].stop_country,
                      lat          |-> parseFloat(entries[k].stop_lat),
                      lon          |-> parseFloat(entries[k].stop_lon)]]
    IN  SelectSeq(parsed, ValidCoords)

\* the unordered index pairs i < j in the order the two nested loops visit them
IndexPairs(n) ==
    LET P == {p \in (1..n) \X (1..n) : p[1] < p[2]}
        Before(p, q) == p[1] < q[1] \/ (p[1] = q[1] /\ p[2] < q[2])
    IN  [k \in 1..Cardinality(P) |->
            CHOOSE p \in P : Cardinality({q \in P : Before(q, p)}) = k - 1]

\* the candidate test of the queue
WithinMaxDistance(dist, D) == LessEq(dist, D)

\* mergeQueue left in the order the nested loops pushed it
BuildMergeQueueUnsorted(sa, D) ==
    LET pairs == IndexPairs(Len(sa))
        all == [k \in DOMAIN pairs |->
                  [i    |-> pairs[k][1],
                   j    |-> pairs[k][2],
                   dist |-> calculateDistance(sa[pairs[k][1]], sa[pairs[k][2]])]]
        Near(e) == WithinMaxDistance(e.dist, D)
    IN  SelectSeq(all, Near)

\* a sort that is not stable: pairs of equal dist leave it in reverse push order
BuildMergeQueueTiesReversed(sa, D) ==
    LET pairs == IndexPairs(Len(sa))
        all == [k \in DOMAIN pairs |->
                  [i    |-> pairs[k][1],
                   j    |-> pairs[k][2],
                   dist |-> calculateDistance(sa[pairs[k][1]], sa[pairs[k][2]])]]
        Near(e) == WithinMaxDistance(e.dist, D)
        ByDist(a, b) == a.dist.v < b.dist.v
        near == SelectSeq(all, Near)
        reversed == [k \in DOMAIN near |-> near[Len(near) + 1 - k]]
    IN  StableSort(reversed, ByDist)

\* mergeQueue: the pairs with dist <= maxDistance, then sort((a, b) => a.dist - b.dist)
BuildMergeQueue(sa, D) ==
    LET pairs == IndexPairs(Len(sa))
        all == [k \in DOMAIN pairs |->
                  [i    |-> pairs[k][1],
                   j    |-> pairs[k][2],
                   dist |-> calculateDistance(sa[pairs[k][1]], sa[pairs[k][2]])]]
        Near(e) == WithinMaxDistance(e.dist, D)
        ByDist(a, b) == a.dist.v < b.dist.v
    IN  StableSort(SelectSeq(all, Near), ByDist)

\* find with path compression: the root of x and the parent array afterwards
RECURSIVE find(_, _)
find(par, x) ==
    IF par[x] # x
    THEN LET r == find(par, par[x])
         IN  [root |-> r.root, parent |-> [r.parent EXCEPT ![x] = r.root]]
    ELSE [root |-> x, parent |-> par]

\* a check that trusts the candidate pair alone (single linkage)
LinkageValidPairOnly(stationsI, stationsJ, sa, D) == TRUE

\* the complete linkage check of the merge loop
LinkageValid(stationsI, stationsJ, sa, D) ==
    \A a \in 1..Len(stationsI) : \A b \in 1..Len(stationsJ) :
        ~Greater(calculateDistance(sa[stationsI[a]], sa[stationsJ[b]]), D)

\* an iteration whose merge leaves clusterStations as it was
ProcessPairKeepsMembers(uf, e, sa, D) ==
    LET fi == find(uf.parent, e.i)
        fj == find(fi.parent, e.j)
        rootI == fi.root
        rootJ == fj.root
        stationsI == uf.clusterStations[rootI]
        stationsJ == uf.clusterStations[rootJ]
    IN  IF rootI = rootJ
        THEN [parent |-> fj.parent, clusterStations |-> uf.clusterStations]
        ELSE IF LinkageValid(stationsI, stationsJ, sa, D)
        THEN [parent |-> [fj.parent EXCEPT ![rootJ] = rootI],
              clusterStations |-> uf.clusterStations]
        ELSE [parent |-> fj.parent, clusterStations |-> uf.clusterStations]

\* one iteration of the merge loop, for queue entry e
ProcessPair(uf, e, sa, D) ==
    LET fi == find(uf.parent, e.i)
        fj == find(fi.parent, e.j)
        rootI == fi.root
        rootJ == fj.root
        stationsI == uf.clusterStations[rootI]
        stationsJ == uf.clusterStations[rootJ]
    IN  IF rootI = rootJ
        THEN [parent |-> fj.parent, clusterStations |-> uf.clusterStations]
        ELSE IF LinkageValid(stationsI, stationsJ, sa, D)
        THEN [parent |-> [fj.parent EXCEPT ![rootJ] = rootI],
              clusterStations |-> [uf.clusterStations EXCEPT
                                      ![rootI] = stationsI \o stationsJ,
                                      ![rootJ] = <<>>]]
        ELSE [parent |-> fj.parent, clusterStations |-> uf.clusterStations]

\* parent and clusterStations before the merge loop
InitialUF(n) ==
    [parent |-> [i \in 1..n |-> i], clusterStations |-> [i \in 1..n |-> <<i>>]]

\* the merge loop from queue position k to the end
RECURSIVE RunMerges(_, _, _, _, _)
RunMerges(uf, queue, k, sa, D) ==
    IF k > Len(queue) THEN uf
    ELSE RunMerges(ProcessPair(uf, queue[k], sa, D), queue, k + 1, sa, D)

\* clusterMap: root -> station indices, in Map insertion order
BuildClusterMap(par) ==
    LET n == Len(par)
        root(i) == find(par, i).root
        firsts == {i \in 1..n : \A j \in 1..(i - 1) : root(j) # root(i)}
        first(k) == CHOOSE i \in firsts : Cardinality({x \in firsts : x < i}) = k - 1
        SameRoot(k) == LET Test(i) == root(i) = root(first(k))
                       IN  SelectSeq([i \in 1..n |-> i], Test)
    IN  [k \in 1..Cardinality(firsts) |-> SameRoot(k)]

\* getMostCommonCountry: countryFreq keeps its keys in first-occurrence order,
\* and reduce keeps a only while countryFreq[a] > countryFreq[b]
RECURSIVE ReduceCountry(_, _, _, _)
ReduceCountry(keys, freq, a, k) ==
    IF k > Len(keys) THEN a
    ELSE ReduceCountry(keys, freq, IF freq[a] > freq[keys[k]] THEN a ELSE keys[k], k + 1)

\* a reduce that keeps a on a tie (>= in place of >)
RECURSIVE ReduceCountryKeepFirst(_, _, _, _)
ReduceCountryKeepFirst(keys, freq, a, k) ==
    IF k > Len(keys) THEN a
    ELSE ReduceCountryKeepFirst(keys, freq,
                                IF freq[a] >= freq[keys[k]] THEN a ELSE keys[k], k + 1)

getMostCommonCountryTiesFirst(stations) ==
    LET n == Len(stations)
        has(i) == stations[i].stop_country # <<>>
        firsts == {i \in 1..n : has(i) /\ \A j \in 1..(i - 1) :
                                    stations[j].stop_country # stations[i].stop_country}
        keys == [k \in 1..Cardinality(firsts) |->
                    stations[CHOOSE i \in firsts :
                                Cardinality({x \in firsts : x < i}) = k - 1].stop_country]
        freq == [c \in {keys[k] : k \in DOMAIN keys} |->
                    Cardinality({i \in 1..n : stations[i].stop_country = c})]
    IN  IF Len(keys) = 0 THEN <<>> ELSE ReduceCountryKeepFirst(keys, freq, keys[1], 2)

getMostCommonCountry(stations) ==
    LET n == Len(stations)
        has(i) == stations[i].stop_country # <<>>
        firsts == {i \in 1..n : has(i) /\ \A j \in 1..(i - 1) :
                                    stations[j].stop_country # stations[i].stop_country}
        keys == [k \in 1..Cardinality(firsts) |->
                    stations[CHOOSE i \in firsts :
                                Cardinality({x \in firsts : x < i}) = k - 1].stop_country]
        freq == [c \in {keys[k] : k \in DOMAIN keys} |->
                    Cardinality({i \in 1..n : stations[i].stop_country = c})]
    IN  IF Len(keys) = 0 THEN <<>> ELSE ReduceCountry(keys, freq, keys[1], 2)

\* a prefix taken from the first two names of the sorted list
longestCommonPrefixAdjacent(strings) ==
    IF Len(strings) = 0 THEN <<>>
    ELSE IF Len(strings) = 1 THEN trim(strings[1])
    ELSE LET sorted == StableSort(strings, StrLess)
             first == sorted[1]
             last == sorted[2]
             same == {i \in 0..Len(first) :
                        \A k \in 1..i : k <= Len(last) /\ first[k] = last[k]}
             i == CHOOSE x \in same : \A y \in same : y <= x
         IN  trim(SubSeq(first, 1, i))

\* longestCommonPrefix
longestCommonPrefix(strings) ==
    IF Len(strings) = 0 THEN <<>>
    ELSE IF Len(strings) = 1 THEN trim(strings[1])
    ELSE LET sorted == StableSort(strings, StrLess)
             first == sorted[1]
             last == sorted[Len(sorted)]
             same == {i \in 0..Len(first) :
                        \A k \in 1..i : k <= Len(last) /\ first[k] = last[k]}
             i == CHOOSE x \in same : \A y \in same : y <= x
         IN  trim(SubSeq(first, 1, i))

MIN_GROUP_NAME_LENGTH == 3

\* `Cluster (${sortedNames[0]}, ...)`
ClusterLabel(name) ==
    <<"C", "l", "u", "s", "t", "e", "r", " ", "(">> \o name \o <<",", " ", ".", ".", ".", ")">>

\* a label that counts one station too few
CountLabelOffByOne(groupName, n) ==
    groupName \o <<" ", "(", Digits[n], " ", "s", "t", "a", "t", "i", "o", "n", "s", ")">>

\* `${groupName} (${stations.length} stations)`
CountLabel(groupName, n) ==
    groupName \o <<" ", "(", Digits[n + 1], " ", "s", "t", "a", "t", "i", "o", "n", "s", ")">>

\* the name of a multi-station cluster
GroupNameOf(stationNames) ==
    LET prefix == longestCommonPrefix(stationNames)
    IN  IF prefix = <<>> \/ Len(prefix) < MIN_GROUP_NAME_LENGTH
        THEN ClusterLabel(StableSort(stationNames, StrLess)[1])
        ELSE prefix

RECURSIVE SumTo(_, _)
SumTo(f, n) == IF n = 0 THEN 0 ELSE f[n] + SumTo(f, n - 1)

\* the mean of coordinates, kept as the sum v over the count den
Mean(xs) ==
    IF \A i \in DOMAIN xs : xs[i].k = "num"
    THEN [k |-> "num", v |-> SumTo([i \in DOMAIN xs |-> xs[i].v], Len(xs)), den |-> Len(xs)]
    ELSE [k |-> "inf", v |-> 0, den |-> 1]

ByStopName(a, b) == localeCompare(a.stop_name, b.stop_name) < 0

\* the group of one cluster (the callback of clusterMap.forEach)
BuildGroup(stations) ==
    IF Len(stations) = 1
    THEN [groupName    |-> stations[1].stop_name,
          displayName  |-> stations[1].stop_name,
          isGroup      |-> FALSE,
          stations     |-> stations,
          lat          |-> Mean(<<stations[1].lat>>),
          lon          |-> Mean(<<stations[1].lon>>),
          stop_country |-> stations[1].stop_country]
    ELSE LET stationNames == [i \in DOMAIN stations |-> stations[i].stop_name]
             groupName == GroupNameOf(stationNames)
             sorted == StableSort(stations, ByStopName)
         IN  [groupName    |-> groupName,
              displayName  |-> CountLabel(groupName, Len(stations)),
              isGroup      |-> TRUE,
              stations     |-> sorted,
              lat          |-> Mean([i \in DOMAIN stations |-> stations[i].lat]),
              lon          |-> Mean([i \in DOMAIN stations |-> stations[i].lon]),
              stop_country |-> getMostCommonCountry(sorted)]

\* groups: one per entry of clusterMap
BuildGroups(par, sa) ==
    LET clusterMap == BuildClusterMap(par)
    IN  [k \in DOMAIN clusterMap |->
            BuildGroup([m \in DOMAIN clusterMap[k] |-> sa[clusterMap[k][m]]])]

\* parent after the find(i) calls that build clusterMap
RECURSIVE FindAll(_, _)
FindAll(par, i) == IF i > Len(par) THEN par ELSE FindAll(find(par, i).parent, i + 1)

\* groupStations as a whole: what the run returns for an input and a threshold
groupStations(entries, D) ==
    LET sa == BuildStopsArray(entries)
        uf == RunMerges(InitialUF(Len(sa)), BuildMergeQueue(sa, D), 1, sa, D)
    IN  BuildGroups(uf.parent, sa)

(***************************************************************************)
(* Inputs                                                                  *)
(***************************************************************************)
\* thresholds, in the unit of calculateDistance (1 and 2 grid steps)
Thresholds == {1, 4}

\* raw (stop_lat, stop_lon) as stops.json may hold them: grid points, a
\* missing latitude, a missing longitude, and a non-finite latitude
CoordPool ==
    { <<"0", "0">>, <<"1", "0">>, <<"2", "0">>, <<"1", "1">>, <<"2", "1">>,
      <<"", "Infinity">>, <<"0", "">>, <<"Infinity", "0">> }

\* stop names and countries of the stations in input order
StationNames ==
    << <<"a", "b", "c", " ", "a">>, <<"a", "b", "c", " ", "b">>,
       <<"a", "b", " ", "c">>, <<"a", "b", "c", " ", "a">>, <<"b">> >>

StationCountries == << <<"A", "T">>, <<"B", "E">>, <<>>, <<"B", "E">>, <<"A", "T">> >>

NameAt(i) == StationNames[((i - 1) % Len(StationNames)) + 1]
CountryAt(i) == StationCountries[((i - 1) % Len(StationCountries)) + 1]

StopEntries(n) ==
    {[i \in 1..n |-> [stop_id |-> i, stop_name |-> NameAt(i), stop_country |-> CountryAt(i),
                      stop_lat |-> cs[i][1], stop_lon |-> cs[i][2]]] :
        cs \in [1..n -> CoordPool]}

(***************************************************************************)
(* The run of groupStations                                                *)
(***************************************************************************)
Init ==
    /\ pc = "start"
    /\ \E n \in 0..NumStations : stops \in StopEntries(n)
    /\ maxDistance \in Thresholds
    /\ stopsArray = <<>>
    /\ mergeQueue = <<>>
    /\ processed = 0
    /\ parent = <<>>
    /\ clusterStations = <<>>
    /\ groups = <<>>
    /\ searchTerm = <<>>
    /\ limit = 0
    /\ results = <<>>
    /\ SynthIdle /\ CallerIdle /\ MainIdle /\ GreedyIdle /\ AppIdle

\* lines 79-117: stopsArray, the sorted queue, the singleton clusters
Prepare ==
    /\ pc = "start"
    /\ stopsArray' = BuildStopsArray(stops)
    /\ mergeQueue' = BuildMergeQueue(stopsArray', maxDistance)
    /\ parent' = InitialUF(Len(stopsArray')).parent
    /\ clusterStations' = InitialUF(Len(stopsArray')).clusterStations
    /\ pc' = "merging"
    /\ UNCHANGED <<stops, maxDistance, processed, groups, searchTerm, limit, results>>
    /\ UNCHANGED <<synthVars, callerVars, mainVars, greedyVars, appVars>>

\* one iteration of the merge loop
MergeStep ==
    /\ pc = "merging"
    /\ processed < Len(mergeQueue)
    /\ LET uf == ProcessPair([parent |-> parent, clusterStations |-> clusterStations],
                             mergeQueue[processed + 1], stopsArray, maxDistance)
       IN  /\ parent' = uf.parent
           /\ clusterStations' = uf.clusterStations
    /\ processed' = processed + 1
    /\ UNCHANGED <<pc, stops, maxDistance, stopsArray, mergeQueue, groups,
                   searchTerm, limit, results>>
    /\ UNCHANGED <<synthVars, callerVars, mainVars, greedyVars, appVars>>

\* lines 170-227: clusterMap and the groups
Finish ==
    /\ pc = "merging"
    /\ processed = Len(mergeQueue)
    /\ groups' = BuildGroups(parent, stopsArray)
    /\ parent' = FindAll(parent, 1)
    /\ pc' = "done"
    /\ UNCHANGED <<stops, maxDistance, stopsArray, mergeQueue, processed,
                   clusterStations, searchTerm, limit, results>>
    /\ UNCHANGED <<synthVars, callerVars, mainVars, greedyVars, appVars>>

Next == Prepare \/ MergeStep \/ Finish

Spec == Init /\ [][Next]_vars

(***************************************************************************)
(* searchInStationGroups.js                                                *)
(***************************************************************************)
DefaultLimit == 20

\* a filter that does not look at the member stations
matchesSearchNoMembers(group, lowerSearch) ==
    \/ includes(toLowerCase(group.groupName), lowerSearch)
    \/ includes(toLowerCase(group.displayName), lowerSearch)
    \/ (group.stop_country # <<>> /\ includes(toLowerCase(group.stop_country), lowerSearch))

\* the callback of filter
matchesSearch(group, lowerSearch) ==
    \/ includes(toLowerCase(group.groupName), lowerSearch)
    \/ includes(toLowerCase(group.displayName), lowerSearch)
    \/ (group.stop_country # <<>> /\ includes(toLowerCase(group.stop_country), lowerSearch))
    \/ \E m \in DOMAIN group.stations :
          includes(toLowerCase(group.stations[m].stop_name), lowerSearch)

\* if (x && !y) return -1; if (!x && y) return 1
Prefer(x, y) == IF x /\ ~y THEN -1 ELSE IF ~x /\ y THEN 1 ELSE 0

\* a comparator tier that decides nothing
NoTier(a, b, lowerSearch) == 0

\* exact match on group name, then on display name
ExactTier(a, b, lowerSearch) ==
    LET byGroup == Prefer(toLowerCase(a.groupName) = lowerSearch,
                          toLowerCase(b.groupName) = lowerSearch)
    IN  IF byGroup # 0 THEN byGroup
        ELSE Prefer(toLowerCase(a.displayName) = lowerSearch,
                    toLowerCase(b.displayName) = lowerSearch)

\* a prefix tier that decides nothing
NoPrefixTier(a, b, lowerSearch) == 0

\* starts-with on group name, then on display name
PrefixTier(a, b, lowerSearch) ==
    LET byGroup == Prefer(startsWith(toLowerCase(a.groupName), lowerSearch),
                          startsWith(toLowerCase(b.groupName), lowerSearch))
    IN  IF byGroup # 0 THEN byGroup
        ELSE Prefer(startsWith(toLowerCase(a.displayName), lowerSearch),
                    startsWith(toLowerCase(b.displayName), lowerSearch))

\* a group tier that puts a group first whatever it is compared with
GroupTierFirstWins(a, b) ==
    IF a.isGroup THEN -1 ELSE IF b.isGroup THEN 1 ELSE 0

\* a group tier that decides nothing
NoGroupTier(a, b) == 0

\* groups by number of stations, then groups before single stations
GroupTier(a, b) ==
    IF a.isGroup /\ b.isGroup /\ Len(b.stations) # Len(a.stations)
    THEN Len(b.stations) - Len(a.stations)
    ELSE Prefer(a.isGroup, b.isGroup)

\* a last tier that decides nothing
NoDisplayTier(a, b) == 0

\* otherwise alphabetically by display name
DisplayTier(a, b) == localeCompare(toLowerCase(a.displayName), toLowerCase(b.displayName))

\* the comparator of sort
compare(a, b, lowerSearch) ==
    LET exact == ExactTier(a, b, lowerSearch)
        prefix == PrefixTier(a, b, lowerSearch)
        group == GroupTier(a, b)
    IN  IF exact # 0 THEN exact
        ELSE IF prefix # 0 THEN prefix
        ELSE IF group # 0 THEN group
        ELSE DisplayTier(a, b)

\* a slice that keeps everything
sliceAll(s, end) == s

\* Array.prototype.slice(0, end)
slice(s, end) ==
    LET stop == IF end < 0 THEN (IF Len(s) + end < 0 THEN 0 ELSE Len(s) + end)
                ELSE IF end > Len(s) THEN Len(s) ELSE end
    IN  SubSeq(s, 1, stop)

\* the search without the early return for an empty term
searchStationGroupsNoGuard(gs, term, lim) ==
    LET lowerSearch == toLowerCase(term)
        Keep(g) == matchesSearch(g, lowerSearch)
        Before(a, b) == compare(a, b, lowerSearch) < 0
    IN  slice(StableSort(SelectSeq(gs, Keep), Before), lim)

\* the list after a call that sorted the caller's array itself
GroupsSortedInPlace(gs, term, lim) ==
    LET lowerSearch == toLowerCase(term)
        Before(a, b) == compare(a, b, lowerSearch) < 0
    IN  IF term = <<>> THEN gs ELSE StableSort(gs, Before)

\* the caller's list after a call: filter returns a new array, and sort and
\* slice work on that array
GroupsAfterSearch(gs, term, lim) == gs

searchStationGroups(gs, term, lim) ==
    IF term = <<>> THEN <<>>
    ELSE LET lowerSearch == toLowerCase(term)
             Keep(g) == matchesSearch(g, lowerSearch)
             Before(a, b) == compare(a, b, lowerSearch) < 0
         IN  slice(StableSort(SelectSeq(gs, Keep), Before), lim)

(***************************************************************************)
(* Search inputs: group lists as groupStations writes them                 *)
(***************************************************************************)
Station(id, name, country) ==
    [stop_id |-> id, stop_name |-> name, stop_country |-> country,
     lat |-> Num(0), lon |-> Num(0)]

\* clusters of stations; each becomes a group through BuildGroup
ClusterPool ==
    { << Station(1, <<"A", "b">>, <<"A", "T">>) >>,
      << Station(2, <<"a", "b", "c", " ", "c">>, <<"B", "E">>) >>,
      << Station(3, <<"c", " ", "a", "b">>, <<>>) >>,
      << Station(4, <<"A", "b", "c", " ", "a">>, <<"B", "E">>),
         Station(5, <<"A", "b", "c", " ", "b">>, <<"B", "E">>) >>,
      << Station(6, <<"c", " ", "a", "b", " ", "a">>, <<"B", "E">>),
         Station(7, <<"c", " ", "a", "b", " ", "b">>, <<>>),
         Station(8, <<"c", " ", "a", "b", " ", "c">>, <<"B", "E">>) >>,
      << Station(9, <<"a", "b", "c">>, <<"B", "E">>) >>,
      << Station(10, <<"c", "a", " ", "b">>, <<"B", "E">>),
         Station(11, <<"c", "b", " ", "b">>, <<"B", "E">>) >>,
      << Station(12, <<"c">>, <<"A", "T">>) >> }

GroupPool == {BuildGroup(c) : c \in ClusterPool}

\* lists of distinct groups, at most MaxGroups long
GroupLists ==
    UNION {{gl \in [1..n -> GroupPool] : \A i \in 1..n : \A j \in 1..n : i # j => gl[i] # gl[j]} :
              n \in 0..MaxGroups}

Queries ==
    { <<>>, <<"a", "b">>, <<"A", "b">>, <<"c">>, <<"a", "b", "c">>, <<"a", "t">>,
      <<"c", "b">> }

Limits == (0..MaxGroups) \cup {DefaultLimit}

InitSearch ==
    /\ pc = "loaded"
    /\ groups \in GroupLists
    /\ searchTerm \in Queries
    /\ limit \in Limits
    /\ results = <<>>
    /\ stops = <<>>
    /\ maxDistance = 0
    /\ stopsArray = <<>>
    /\ mergeQueue = <<>>
    /\ processed = 0
    /\ parent = <<>>
    /\ clusterStations = <<>>
    /\ SynthIdle /\ CallerIdle /\ MainIdle /\ GreedyIdle /\ AppIdle

\* one call of searchStationGroups on the loaded groups
Search ==
    /\ pc = "loaded"
    /\ results' = searchStationGroups(groups, searchTerm, limit)
    /\ groups' = GroupsAfterSearch(groups, searchTerm, limit)
    /\ pc' = "searched"
    /\ UNCHANGED <<clusterVars, searchTerm, limit>>
    /\ UNCHANGED <<synthVars, callerVars, mainVars, greedyVars, appVars>>

NextSearch == Search

SpecSearch == InitSearch /\ [][NextSearch]_vars

(***************************************************************************)
(* Two callers of searchStationGroups on the same list. A call runs to its *)
(* end before another starts, so the calls interleave as wholes.           *)
(***************************************************************************)
\* the queries of the second caller
OtherQueries == {<<"c">>, <<"a", "b">>}

\* the queries of the first caller
FirstQueries == {<<>>, <<"a", "b">>, <<"c", "b">>}

InitCallers ==
    /\ pc = "loaded"
    /\ groups \in GroupLists
    /\ searchTerm \in FirstQueries
    /\ otherTerm \in OtherQueries
    /\ limit = DefaultLimit
    /\ results = <<>>
    /\ otherResults = <<>>
    /\ stops = <<>>
    /\ maxDistance = 0
    /\ stopsArray = <<>>
    /\ mergeQueue = <<>>
    /\ processed = 0
    /\ parent = <<>>
    /\ clusterStations = <<>>
    /\ SynthIdle /\ MainIdle /\ GreedyIdle /\ AppIdle

\* the first caller's call, before or after the other's
CallFirst ==
    /\ pc \in {"loaded", "other"}
    /\ results' = searchStationGroups(groups, searchTerm, limit)
    /\ groups' = GroupsAfterSearch(groups, searchTerm, limit)
    /\ pc' = IF pc = "loaded" THEN "first" ELSE "both"
    /\ UNCHANGED <<clusterVars, searchTerm, limit, otherTerm, otherResults>>
    /\ UNCHANGED <<synthVars, mainVars, greedyVars, appVars>>

\* the second caller's call, before or after the first's
CallOther ==
    /\ pc \in {"loaded", "first"}
    /\ otherResults' = searchStationGroups(groups, otherTerm, limit)
    /\ groups' = GroupsAfterSearch(groups, otherTerm, limit)
    /\ pc' = IF pc = "loaded" THEN "other" ELSE "both"
    /\ UNCHANGED <<clusterVars, searchTerm, limit, otherTerm, results>>
    /\ UNCHANGED <<synthVars, mainVars, greedyVars, appVars>>

NextCallers == CallFirst \/ CallOther

SpecCallers == InitCallers /\ [][NextCallers]_vars

(***************************************************************************)
(* The synthesis of one group from one cluster (lines 187-225), with       *)
(* longestCommonPrefix applied to the cluster's names                      *)
(***************************************************************************)
\* (stop_name, stop_country) of the stations a cluster is drawn from
MemberPool ==
    << << <<"a", "b", "c", " ", "a">>, <<"A", "T">> >>,
       << <<"a", "b", "c", " ", "a">>, <<"B", "E">> >>,
       << <<"a", "b", "c", " ", "b">>, <<"B", "E">> >>,
       << <<"a", "b", "c", " ", "b">>, <<"E", "E">> >>,
       << <<"a", "b", "c", " ", "c">>, <<>> >>,
       << <<" ", "a", "b">>, <<"A", "T">> >>,
       << <<" ", "a", "c">>, <<"E", "E">> >>,
       << <<"a", "b", " ">>, <<"B", "E">> >>,
       << <<"b">>, <<"A", "T">> >>,
       << <<"a", "b", "c">>, <<>> >> >>

\* the clusters of n stations; the stop_ids are distinct, as object keys are
ClustersOf(n) ==
    {[i \in 1..n |-> Station(i, MemberPool[f[i]][1], MemberPool[f[i]][2])] :
        f \in [1..n -> DOMAIN MemberPool]}

\* stations.map(s => s.stop_name)
StationNamesOf(stations) == [i \in DOMAIN stations |-> stations[i].stop_name]

InitSynth ==
    /\ pc = "cluster"
    /\ \E n \in 0..MaxCluster : cluster \in ClustersOf(n)
    /\ commonPrefix = <<>>
    /\ groups = <<>>
    /\ stops = <<>>
    /\ maxDistance = 0
    /\ stopsArray = <<>>
    /\ mergeQueue = <<>>
    /\ processed = 0
    /\ parent = <<>>
    /\ clusterStations = <<>>
    /\ searchTerm = <<>>
    /\ limit = 0
    /\ results = <<>>
    /\ CallerIdle /\ MainIdle /\ GreedyIdle /\ AppIdle

\* longestCommonPrefix(stationNames)
CommonPrefix ==
    /\ pc = "cluster"
    /\ commonPrefix' = longestCommonPrefix(StationNamesOf(cluster))
    /\ pc' = "named"
    /\ UNCHANGED <<clusterVars, groups, searchTerm, limit, results, cluster>>
    /\ UNCHANGED <<callerVars, mainVars, greedyVars, appVars>>

\* the clusterMap.forEach callback on this cluster
Synthesize ==
    /\ pc = "named"
    /\ Len(cluster) >= 1
    /\ groups' = <<BuildGroup(cluster)>>
    /\ pc' = "synthesized"
    /\ UNCHANGED <<clusterVars, searchTerm, limit, results, cluster, commonPrefix>>
    /\ UNCHANGED <<callerVars, mainVars, greedyVars, appVars>>

NextSynth == CommonPrefix \/ Synthesize

SpecSynth == InitSynth /\ [][NextSynth]_vars

(***************************************************************************)
(* The main execution of generate-station-groups.js (lines 231-270)        *)
(***************************************************************************)
\* the directories main uses: public/data (in Docker) and data/latest
Places == {"docker", "latest"}

\* a file, by what a reader finds: "absent", "garbage" (not JSON), "null"
\* (the JSON null), "nullStop" (a mapping with a null stop), "stops" (a
\* mapping of stops); for station-groups.json: "absent", "previous" (the
\* artifact of an earlier run), "groups" (the array written by this run),
\* "truncated" (opened for writing, not written to the end)
File(kind) == [kind |-> kind, data |-> <<>>]

StopFiles ==
    {File("absent"), File("garbage"), File("null"), File("nullStop")}
      \cup UNION {{[kind |-> "stops", data |-> e] : e \in StopEntries(n)} :
                     n \in 0..MaxFileStops}

\* the place main reads from and writes to
PlaceOf(inDocker) == IF inDocker THEN "docker" ELSE "latest"

InitMain ==
    /\ pc = "main"
    /\ stopsFile \in [Places -> StopFiles]
    /\ outputFile \in [Places -> {File("absent"), File("previous")}]
    /\ stopsData = <<>>
    /\ runningInDocker = FALSE
    /\ exitCode = 0
    /\ maxDistance \in Thresholds
    /\ groups = <<>>
    /\ stops = <<>>
    /\ stopsArray = <<>>
    /\ mergeQueue = <<>>
    /\ processed = 0
    /\ parent = <<>>
    /\ clusterStations = <<>>
    /\ searchTerm = <<>>
    /\ limit = 0
    /\ results = <<>>
    /\ SynthIdle /\ CallerIdle /\ GreedyIdle /\ AppIdle

\* lines 232-246: choose the path, read and parse; exit(1) when that throws
ReadStops ==
    /\ pc = "main"
    /\ runningInDocker' = (stopsFile["docker"].kind # "absent")
    /\ LET file == stopsFile[PlaceOf(runningInDocker')]
       IN  IF file.kind \in {"absent", "garbage"}
           THEN /\ exitCode' = 1
                /\ pc' = "exited"
                /\ UNCHANGED stopsData
           ELSE /\ stopsData' = file
                /\ pc' = "read"
                /\ UNCHANGED exitCode
    /\ UNCHANGED <<clusterVars, groups, searchTerm, limit, results, stopsFile, outputFile>>
    /\ UNCHANGED <<synthVars, callerVars, greedyVars, appVars>>

\* lines 248-253: Object.keys(stopsData) and groupStations(stopsData); a
\* TypeError goes to the outer catch, which exits with 1
Generate ==
    /\ pc = "read"
    /\ IF stopsData.kind \in {"null", "nullStop"}
       THEN /\ exitCode' = 1
            /\ pc' = "exited"
            /\ UNCHANGED groups
       ELSE /\ groups' = groupStations(stopsData.data, maxDistance)
            /\ pc' = "generated"
            /\ UNCHANGED exitCode
    /\ UNCHANGED <<clusterVars, searchTerm, limit, results,
                   stopsFile, stopsData, outputFile, runningInDocker>>
    /\ UNCHANGED <<synthVars, callerVars, greedyVars, appVars>>

\* lines 255-264: writeFileSync(outputPath, JSON.stringify(groups)) writes the
\* file in place; when it throws, the file is as it was (it could not be
\* opened) or truncated (it was opened, the write did not end), and main
\* exits with 1
WriteOutput ==
    /\ pc = "generated"
    /\ LET place == PlaceOf(runningInDocker)
       IN  \/ /\ outputFile' = [outputFile EXCEPT ![place] = [kind |-> "groups", data |-> groups]]
              /\ exitCode' = 0
           \/ /\ \E left \in {outputFile[place], File("truncated")} :
                    outputFile' = [outputFile EXCEPT ![place] = left]
              /\ exitCode' = 1
    /\ pc' = "exited"
    /\ UNCHANGED <<clusterVars, groups, searchTerm, limit, results,
                   stopsFile, stopsData, runningInDocker>>
    /\ UNCHANGED <<synthVars, callerVars, greedyVars, appVars>>

NextMain == ReadStops \/ Generate \/ WriteOutput

SpecMain == InitMain /\ [][NextMain]_vars

(***************************************************************************)
(* The greedy closest-pair groupStations of the webapp utility, run on the *)
(* input of the generate script's groupStations after that has returned    *)
(***************************************************************************)
\* getCacheKey
getCacheKey(i, j) == IF i < j THEN <<i, j>> ELSE <<j, i>>

\* the loops of getMaxDistBetweenClusters: maxDist starts at 0 and takes
\* every dist > maxDist; a dist that is NaN compares false and is passed over
ComputeMaxDist(clusterI, clusterJ, sa) ==
    LET dists == {calculateDistance(sa[clusterI[a]], sa[clusterJ[b]]) :
                     a \in DOMAIN clusterI, b \in DOMAIN clusterJ}
        vals == {d.v : d \in {x \in dists : x.k = "num"}} \cup {0}
    IN  CHOOSE m \in vals : \A v \in vals : v <= m

\* getMaxDistBetweenClusters: the value returned and the cache afterwards
getMaxDistBetweenClusters(cache, clusterI, clusterJ, iIdx, jIdx, sa) ==
    LET key == getCacheKey(iIdx, jIdx)
    IN  IF key \in DOMAIN cache
        THEN [value |-> cache[key], cache |-> cache]
        ELSE LET maxDist == ComputeMaxDist(clusterI, clusterJ, sa)
             IN  [value |-> maxDist, cache |-> cache @@ (key :> maxDist)]

\* bestI = -1, bestJ = -1, bestDist = Infinity
NoBest == [i |-> 0, j |-> 0, dist |-> Infinity]

\* the two nested for loops of one iteration, from pair k on
RECURSIVE ScanPairs(_, _, _, _, _, _)
ScanPairs(cls, sa, D, pairs, k, st) ==
    IF k > Len(pairs) THEN st
    ELSE LET i == pairs[k][1]
             j == pairs[k][2]
             r == getMaxDistBetweenClusters(st.cache, cls[i], cls[j], i, j, sa)
             better == /\ r.value <= D
                       /\ (st.best.dist.k = "inf" \/ r.value < st.best.dist.v)
         IN  ScanPairs(cls, sa, D, pairs, k + 1,
                       [cache |-> r.cache,
                        best  |-> IF better THEN [i |-> i, j |-> j, dist |-> Num(r.value)]
                                  ELSE st.best])

\* a merge that leaves the cluster at bestJ in the array
MergeClustersNoSplice(cls, bestI, bestJ) ==
    [cls EXCEPT ![bestI] = cls[bestI] \o cls[bestJ]]

\* clusters[bestI] = clusters[bestI].concat(clusters[bestJ]); clusters.splice(bestJ, 1)
MergeClusters(cls, bestI, bestJ) ==
    [k \in 1..(Len(cls) - 1) |->
        IF k = bestI THEN cls[bestI] \o cls[bestJ]
        ELSE IF k < bestJ THEN cls[k]
        ELSE cls[k + 1]]

\* a cache that keeps its entries over a merge
CacheKept(cache) == cache

\* maxDistCache.clear()
CacheAfterMerge(cache) == <<>>

\* the coordinates of the inputs both variants are run on
VariantCoordPool ==
    { <<"0", "0">>, <<"1", "0">>, <<"2", "0">>, <<"2", "1">>, <<"Infinity", "0">> }

VariantEntries(n) ==
    {[i \in 1..n |-> [stop_id |-> i, stop_name |-> NameAt(i), stop_country |-> CountryAt(i),
                      stop_lat |-> cs[i][1], stop_lon |-> cs[i][2]]] :
        cs \in [1..n -> VariantCoordPool]}

InitVariants ==
    /\ pc = "start"
    /\ \E n \in 0..NumStations : stops \in VariantEntries(n)
    /\ maxDistance \in Thresholds
    /\ stopsArray = <<>>
    /\ mergeQueue = <<>>
    /\ processed = 0
    /\ parent = <<>>
    /\ clusterStations = <<>>
    /\ groups = <<>>
    /\ searchTerm = <<>>
    /\ limit = 0
    /\ results = <<>>
    /\ SynthIdle /\ CallerIdle /\ MainIdle /\ GreedyIdle /\ AppIdle

\* part_001 lines 86-102: stopsArray, one cluster per station, an empty cache
PrepareGreedy ==
    /\ pc = "done"
    /\ stopsArray' = BuildStopsArray(stops)
    /\ clusters' = [i \in 1..Len(stopsArray') |-> <<i>>]
    /\ maxDistCache' = <<>>
    /\ best' = NoBest
    /\ pc' = "scan"
    /\ UNCHANGED <<stops, maxDistance, mergeQueue, processed, parent, clusterStations,
                   groups, searchTerm, limit, results, greedyGroups>>
    /\ UNCHANGED <<synthVars, callerVars, mainVars, appVars>>

\* part_001 lines 129-151: the search for the closest pair of clusters; the
\* loop ends when there is none
FindBest ==
    /\ pc = "scan"
    /\ LET st == ScanPairs(clusters, stopsArray, maxDistance,
                           IndexPairs(Len(clusters)), 1,
                           [cache |-> maxDistCache, best |-> NoBest])
       IN  /\ maxDistCache' = st.cache
           /\ best' = st.best
           /\ pc' = IF st.best.i = 0 THEN "convert" ELSE "merge"
    /\ UNCHANGED <<clusterVars, groups, searchTerm, limit, results, clusters, greedyGroups>>
    /\ UNCHANGED <<synthVars, callerVars, mainVars, appVars>>

\* part_001 lines 153-160: the merge, and the cache cleared
MergeBest ==
    /\ pc = "merge"
    /\ clusters' = MergeClusters(clusters, best.i, best.j)
    /\ maxDistCache' = CacheAfterMerge(maxDistCache)
    /\ pc' = "scan"
    /\ UNCHANGED <<clusterVars, groups, searchTerm, limit, results, best, greedyGroups>>
    /\ UNCHANGED <<synthVars, callerVars, mainVars, appVars>>

\* part_001 lines 163-203: the groups of the clusters
ConvertGreedy ==
    /\ pc = "convert"
    /\ greedyGroups' = [k \in DOMAIN clusters |->
                          BuildGroup([m \in DOMAIN clusters[k] |-> stopsArray[clusters[k][m]]])]
    /\ pc' = "returned"
    /\ UNCHANGED <<clusterVars, groups, searchTerm, limit, results,
                   clusters, maxDistCache, best>>
    /\ UNCHANGED <<synthVars, callerVars, mainVars, appVars>>

NextVariants ==
    \/ Prepare \/ MergeStep \/ Finish
    \/ PrepareGreedy \/ FindBest \/ MergeBest \/ ConvertGreedy

SpecVariants == InitVariants /\ [][NextVariants]_vars

\* a call runs synchronously until it returns: weak fairness of NextVariants,
\* with "NextVariants is enabled" written as the guards of its actions say it
\* (some action's guard holds in every state before the return, StepEnabled)
StepEnabled ==
    \/ pc \in {"start", "done", "scan", "merge", "convert"}
    \/ pc = "merging" /\ processed <= Len(mergeQueue)

FairVariants == []<>(~StepEnabled) \/ []<><<NextVariants>>_vars

SpecVariantsFair == InitVariants /\ [][NextVariants]_vars /\ FairVariants

(***************************************************************************)
(* App.jsx: the selection, its copy in localStorage and the trips shown.   *)
(* A handler or the effects of one commit run to their end before the next *)
(* event is taken.                                                         *)
(***************************************************************************)
\* JSON.stringify of a group: a number that is not finite becomes null
JsonGroup(g) ==
    [g EXCEPT !.lat = IF g.lat.k = "num" THEN g.lat ELSE [k |-> "null", v |-> 0],
              !.lon = IF g.lon.k = "num" THEN g.lon ELSE [k |-> "null", v |-> 0]]

\* JSON.stringify(stationGroups), as the item localStorage then holds
JSONstringify(sel) == [kind |-> "json", value |-> [k \in DOMAIN sel |-> JsonGroup(sel[k])]]

\* a save that writes nothing
saveNothing(sel, item, ok) == item

\* saveSelectedStationGroups: setItem may throw, and the error is only logged
saveSelectedStationGroups(sel, item, ok) == IF ok THEN JSONstringify(sel) ELSE item

\* loadSelectedStationGroups: [] for no item and for an item that does not parse
loadSelectedStationGroups(item) ==
    IF item.kind = "json" THEN item.value ELSE <<>>

\* a save effect that does not wait for the restoration
ShouldSaveAlways(restored) == TRUE

\* if (isRestoredRef.current)
ShouldSave(restored) == restored

\* stops left in the order of the file
SortStopsNot(s) == s

BySequence(a, b) == a.stop_sequence < b.stop_sequence

\* stopsForTrip.sort((a, b) => a.stop_sequence - b.stop_sequence)
SortStops(s) == StableSort(s, BySequence)

\* the filter effect: the new value of filteredTrips
FilterTrips(sel, tr, ts, old) ==
    IF Len(sel) = 0 THEN <<>>
    ELSE IF Len(tr) = 0 \/ Len(ts) = 0 THEN old
    ELSE LET selectedStationIds ==
                 UNION {{sel[g].stations[m].stop_id : m \in DOMAIN sel[g].stations} :
                           g \in DOMAIN sel}
             OfTrip(t) == LET Same(x) == x.trip_id = t.trip_id IN SelectSeq(ts, Same)
             hasMatchingStation(t) ==
                 \E k \in DOMAIN OfTrip(t) : OfTrip(t)[k].stop_id \in selectedStationIds
             matchingTrips == SelectSeq(tr, hasMatchingStation)
         IN  [k \in DOMAIN matchingTrips |->
                 [trip |-> matchingTrips[k], stops |-> SortStops(OfTrip(matchingTrips[k]))]]

\* a handler that adds without looking at the selection
AddAlways(sel, group) == Append(sel, group)

\* handleStationGroupAdd: the new selection
AfterAdd(sel, group) ==
    IF \E k \in DOMAIN sel : sel[k].groupName = group.groupName
    THEN sel
    ELSE Append(sel, group)

\* handleStationGroupRemove: the new selection
AfterRemove(sel, groupName) ==
    LET Other(g) == g.groupName # groupName IN SelectSeq(sel, Other)

RECURSIVE Flatten(_)
\* the stations of all groups, each as an entry of its own
Flatten(gs) ==
    IF gs = <<>> THEN <<>>
    ELSE [m \in DOMAIN gs[1].stations |->
             LET station == gs[1].stations[m]
             IN  [groupName    |-> station.stop_name,
                  displayName  |-> station.stop_name,
                  isGroup      |-> FALSE,
                  stations     |-> <<station>>,
                  lat          |-> station.lat,
                  lon          |-> station.lon,
                  stop_country |-> station.stop_country]] \o Flatten(Tail(gs))

\* displayStationGroups
displayStationGroups(gs, enabled) == IF enabled THEN gs ELSE Flatten(gs)

\* the content of station-groups.json, trips.json and trip_stop.json
AppGroups ==
    << BuildGroup(<< Station(1, <<"A", "b">>, <<"A", "T">>) >>),
       BuildGroup(<< Station(2, <<"A", "b">>, <<"B", "E">>),
                     Station(3, <<"A", "b", " ", "c">>, <<"B", "E">>) >>),
       BuildGroup(<< Station(4, <<"c">>, <<"A", "T">>) >>) >>

StationGroupFiles == { <<>>, AppGroups }

TripFiles == { <<>>, <<[trip_id |-> 1], [trip_id |-> 2]>> }

TripStop(t, s, n) == [trip_id |-> t, stop_id |-> s, stop_sequence |-> n]

TripStopFiles ==
    { <<>>,
      << TripStop(1, 3, 2), TripStop(2, 4, 1), TripStop(1, 1, 1), TripStop(2, 9, 2) >>,
      << TripStop(1, 9, 3), TripStop(1, 4, 2), TripStop(1, 2, 1), TripStop(2, 9, 1) >> }

\* what an earlier session can have left in localStorage
StoredItems ==
    { [kind |-> "absent"], [kind |-> "corrupt"],
      JSONstringify(<<>>),
      JSONstringify(<<AppGroups[2]>>),
      JSONstringify(<<AppGroups[3], Flatten(AppGroups)[3]>>) }

InitApp ==
    /\ pc = "app_mount"
    /\ storage \in StoredItems
    /\ setItemThrows \in BOOLEAN
    /\ trips = <<>>
    /\ tripStops = <<>>
    /\ selectedStationGroups = <<>>
    /\ filteredTrips = <<>>
    /\ groupingEnabled = TRUE
    /\ isRestoredRef = FALSE
    /\ calls = {}
    /\ groups = <<>>
    /\ stops = <<>>
    /\ maxDistance = 0
    /\ stopsArray = <<>>
    /\ mergeQueue = <<>>
    /\ processed = 0
    /\ parent = <<>>
    /\ clusterStations = <<>>
    /\ searchTerm = <<>>
    /\ limit = 0
    /\ results = <<>>
    /\ SynthIdle /\ CallerIdle /\ MainIdle /\ GreedyIdle

appOther == <<stops, maxDistance, stopsArray, mergeQueue, processed, parent,
              clusterStations, searchTerm, limit, results,
              synthVars, callerVars, mainVars, greedyVars>>

\* the filter effect and the save effect of a commit that changed the selection
SelectionEffects(next) ==
    /\ filteredTrips' = FilterTrips(selectedStationGroups, trips, tripStops, filteredTrips)
    /\ IF ShouldSave(isRestoredRef)
       THEN /\ storage' = saveSelectedStationGroups(selectedStationGroups, storage,
                                                     ~setItemThrows)
            /\ calls' = calls \cup {"save"}
       ELSE UNCHANGED <<storage, calls>>
    /\ pc' = next
    /\ UNCHANGED setItemThrows

\* App.jsx lines 43-47, 49-52, 109-113, 160-164: the effects of the first
\* commit; no station groups yet, so the restore effect returns at once
MountEffects ==
    /\ pc = "app_mount"
    /\ groupingEnabled' \in BOOLEAN
    /\ SelectionEffects("app_loading")
    /\ UNCHANGED <<groups, trips, tripStops, selectedStationGroups, isRestoredRef, appOther>>

\* lines 74-76, 99-103: a fetch failed
LoadFails ==
    /\ pc = "app_loading"
    /\ pc' = "app_error"
    /\ UNCHANGED <<groups, appVars, appOther>>

\* lines 65-98: the four files arrived
LoadData ==
    /\ pc = "app_loading"
    /\ groups' \in StationGroupFiles
    /\ trips' \in TripFiles
    /\ tripStops' \in TripStopFiles
    /\ pc' = "app_data_effects"
    /\ UNCHANGED <<selectedStationGroups, filteredTrips, groupingEnabled, isRestoredRef,
                   storage, setItemThrows, calls, appOther>>

\* lines 49-62 and 109-156: the restore effect and the filter effect of the
\* commit that brought the data; the filter effect sees the selection of that
\* commit
DataEffects ==
    /\ pc = "app_data_effects"
    /\ filteredTrips' = FilterTrips(selectedStationGroups, trips, tripStops, filteredTrips)
    /\ IF Len(groups) = 0
       THEN /\ pc' = "app_started"
            /\ UNCHANGED <<selectedStationGroups, isRestoredRef, calls>>
       ELSE LET savedGroups == loadSelectedStationGroups(storage)
            IN  /\ calls' = calls \cup {"load"}
                /\ isRestoredRef' = TRUE
                /\ IF Len(savedGroups) > 0
                   THEN selectedStationGroups' = savedGroups /\ pc' = "app_restore_effects"
                   ELSE UNCHANGED selectedStationGroups /\ pc' = "app_started"
    /\ UNCHANGED <<groups, trips, tripStops, groupingEnabled, storage, setItemThrows,
                   appOther>>

\* lines 109-164: the effects of the commit that restored the selection
RestoreCommitEffects ==
    /\ pc = "app_restore_effects"
    /\ SelectionEffects("app_started")
    /\ UNCHANGED <<groups, trips, tripStops, selectedStationGroups, groupingEnabled,
                   isRestoredRef, appOther>>

\* lines 109-164: the effects of a commit after the user changed the selection
SelectionCommitEffects ==
    /\ pc = "app_selection_effects"
    /\ SelectionEffects("app_idle")
    /\ UNCHANGED <<groups, trips, tripStops, selectedStationGroups, groupingEnabled,
                   isRestoredRef, appOther>>

AppReady == pc \in {"app_started", "app_idle"}

\* lines 171-175
handleStationGroupAdd ==
    /\ AppReady
    /\ \E k \in DOMAIN displayStationGroups(groups, groupingEnabled) :
          LET group == displayStationGroups(groups, groupingEnabled)[k]
              next == AfterAdd(selectedStationGroups, group)
          IN  /\ selectedStationGroups' = next
              /\ pc' = IF next = selectedStationGroups THEN pc ELSE "app_selection_effects"
    /\ UNCHANGED <<groups, trips, tripStops, filteredTrips, groupingEnabled,
                   isRestoredRef, storage, setItemThrows, calls, appOther>>

\* lines 177-179
handleStationGroupRemove ==
    /\ AppReady
    /\ \E k \in DOMAIN selectedStationGroups :
          selectedStationGroups' =
              AfterRemove(selectedStationGroups, selectedStationGroups[k].groupName)
    /\ pc' = "app_selection_effects"
    /\ UNCHANGED <<groups, trips, tripStops, filteredTrips, groupingEnabled,
                   isRestoredRef, storage, setItemThrows, calls, appOther>>

\* lines 181-183
handleToggleGrouping ==
    /\ AppReady
    /\ groupingEnabled' = ~groupingEnabled
    /\ UNCHANGED <<pc, groups, trips, tripStops, selectedStationGroups, filteredTrips,
                   isRestoredRef, storage, setItemThrows, calls, appOther>>

NextApp ==
    \/ MountEffects
    \/ LoadFails
    \/ LoadData
    \/ DataEffects
    \/ RestoreCommitEffects
    \/ SelectionCommitEffects
    \/ handleStationGroupAdd
    \/ handleStationGroupRemove
    \/ handleToggleGrouping

SpecApp == InitApp /\ [][NextApp]_vars

(***************************************************************************)
(* StationAutocomplete.jsx: the suggestions for a search term              *)
(***************************************************************************)
\* the limit StationAutocomplete passes to searchStationGroups
SuggestLimit == 20

\* searchStationGroups(stationGroups, searchTerm, 20)
\*     .filter(group => !selectedGroupNames.has(group.groupName))
filteredGroups(stationGroups, term, selectedGroups) ==
    LET selectedGroupNames == {selectedGroups[k].groupName : k \in DOMAIN selectedGroups}
        Unselected(group) == group.groupName \notin selectedGroupNames
    IN  SelectSeq(searchStationGroups(stationGroups, term, SuggestLimit), Unselected)

\* single stations "a11", "a12", ..., two more than the limit
SuggestName(k) == <<"a", Digits[((k - 1) \div 6) + 2], Digits[((k - 1) % 6) + 2]>>

SuggestGroup(k) == BuildGroup(<< Station(k, SuggestName(k), <<"A", "T">>) >>)

NumSuggest == SuggestLimit + 2

\* the station groups, in the order of the file
SuggestGroups == [k \in 1..NumSuggest |-> SuggestGroup(NumSuggest + 1 - k)]

\* selections: the groups from..to by name, in that order
SuggestSelections ==
    {[i \in 1..(to - from + 1) |-> SuggestGroup(from + i - 1)] :
        from \in {1, 2}, to \in 1..NumSuggest} \cup {<<>>}

SuggestQueries == { <<"a">>, <<"A", "1">>, <<"6">> }

InitSuggest ==
    /\ pc = "typing"
    /\ groups = SuggestGroups
    /\ selectedStationGroups \in SuggestSelections
    /\ searchTerm \in SuggestQueries
    /\ results = <<>>
    /\ limit = SuggestLimit
    /\ stops = <<>>
    /\ maxDistance = 0
    /\ stopsArray = <<>>
    /\ mergeQueue = <<>>
    /\ processed = 0
    /\ parent = <<>>
    /\ clusterStations = <<>>
    /\ trips = <<>>
    /\ tripStops = <<>>
    /\ filteredTrips = <<>>
    /\ groupingEnabled = TRUE
    /\ isRestoredRef = TRUE
    /\ storage = JSONstringify(selectedStationGroups)
    /\ setItemThrows = FALSE
    /\ calls = {"load", "save"}
    /\ SynthIdle /\ CallerIdle /\ MainIdle /\ GreedyIdle

\* one render of StationAutocomplete with the search term typed
Suggest ==
    /\ pc = "typing"
    /\ results' = filteredGroups(groups, searchTerm, selectedStationGroups)
    /\ pc' = "suggested"
    /\ UNCHANGED <<stops, maxDistance, stopsArray, mergeQueue, processed, parent,
                   clusterStations, groups, searchTerm, limit>>
    /\ UNCHANGED <<synthVars, callerVars, mainVars, greedyVars, appVars>>

NextSuggest == Suggest

SpecSuggest == InitSuggest /\ [][NextSuggest]_vars

(***************************************************************************)
(* The sort of searchStationGroups on its own: three matches, any query    *)
(***************************************************************************)
\* .sort((a, b) => ...) of the matches
sortMatches(matches, lowerSearch) ==
    LET Before(a, b) == compare(a, b, lowerSearch) < 0
    IN  StableSort(matches, Before)

InitCompare ==
    /\ pc = "filtered"
    /\ groups \in [1..3 -> GroupPool]
    /\ searchTerm \in Queries
    /\ limit = DefaultLimit
    /\ results = <<>>
    /\ stops = <<>>
    /\ maxDistance = 0
    /\ stopsArray = <<>>
    /\ mergeQueue = <<>>
    /\ processed = 0
    /\ parent = <<>>
    /\ clusterStations = <<>>
    /\ SynthIdle /\ CallerIdle /\ MainIdle /\ GreedyIdle /\ AppIdle

SortMatches ==
    /\ pc = "filtered"
    /\ results' = sortMatches(groups, toLowerCase(searchTerm))
    /\ pc' = "sorted"
    /\ UNCHANGED <<stops, maxDistance, stopsArray, mergeQueue, processed, parent,
                   clusterStations, groups, searchTerm, limit>>
    /\ UNCHANGED <<synthVars, callerVars, mainVars, greedyVars, appVars>>

NextCompare == SortMatches

SpecCompare == InitCompare /\ [][NextCompare]_vars

(***************************************************************************)
(* Properties of groupStations                                             *)
(***************************************************************************)
GroupIndexes == DOMAIN groups

\* the stop_ids of a group's stations
MemberIds(g) == {g.stations[m].stop_id : m \in DOMAIN g.stations}

\* the distance of two stations is at most D / more than D
Within(a, b, D) == LessEq(calculateDistance(a, b), D)
Farther(a, b, D) == Greater(calculateDistance(a, b), D)

\* the group (index) that holds queue-index station i of stopsArray
GroupOf(i) == CHOOSE k \in GroupIndexes : stopsArray[i].stop_id \in MemberIds(groups[k])

\* C1: every group of two or more members has all its member pairs at most
\* maxDistance apart (so two stations farther apart are never grouped).
C1_CompleteLinkage ==
    pc = "done" =>
        \A k \in GroupIndexes :
            LET st == groups[k].stations
            IN  /\ Len(st) >= 2 =>
                    \A a \in DOMAIN st : \A b \in DOMAIN st :
                        a # b => Within(st[a], st[b], maxDistance)
                /\ \A a \in DOMAIN st : \A b \in DOMAIN st :
                        ~Farther(st[a], st[b], maxDistance)

\* a run that built a group of three and refused a candidate pair
C1_Witness ==
    /\ pc = "done"
    /\ \E k \in GroupIndexes : Len(groups[k].stations) >= 3
    /\ \E e \in DOMAIN mergeQueue :
          GroupOf(mergeQueue[e].i) # GroupOf(mergeQueue[e].j)

\* the input entries the filter of stopsArray keeps
KeptIds == {stops[k].stop_id : k \in {x \in DOMAIN stops :
                ~isNaN(parseFloat(stops[x].stop_lat)) /\ ~isNaN(parseFloat(stops[x].stop_lon))}}

FiniteIds == {stops[k].stop_id : k \in {x \in DOMAIN stops :
                parseFloat(stops[x].stop_lat).k = "num" /\ parseFloat(stops[x].stop_lon).k = "num"}}

Occurrences(id) ==
    Cardinality({km \in GroupIndexes \X (1..NumStations) :
                    /\ km[2] \in DOMAIN groups[km[1]].stations
                    /\ groups[km[1]].stations[km[2]].stop_id = id})

\* C2: the groups partition the stations that were not excluded for their
\* coordinates: each such station is in exactly one group, exactly once, and
\* the groups hold nothing else.
C2_Partition ==
    pc = "done" =>
        /\ \A id \in KeptIds : Occurrences(id) = 1
        /\ \A id \in FiniteIds : Occurrences(id) = 1
        /\ UNION {MemberIds(groups[k]) : k \in GroupIndexes} = KeptIds

\* a run with an excluded station, a group of two and a singleton
C2_Witness ==
    /\ pc = "done"
    /\ KeptIds # {stops[k].stop_id : k \in DOMAIN stops}
    /\ \E k \in GroupIndexes : Len(groups[k].stations) = 2
    /\ \E k \in GroupIndexes : Len(groups[k].stations) = 1

\* C3: when the run is done no two distinct groups could still be merged:
\* some station of the one and some station of the other are farther apart
\* than maxDistance.
C3_Maximal ==
    pc = "done" =>
        \A k1 \in GroupIndexes : \A k2 \in GroupIndexes :
            k1 # k2 =>
                \E a \in DOMAIN groups[k1].stations : \E b \in DOMAIN groups[k2].stations :
                    Farther(groups[k1].stations[a], groups[k2].stations[b], maxDistance)

\* C3 on inputs whose kept stations all have finite coordinates
C3_MaximalFinite ==
    (pc = "done" /\ KeptIds = FiniteIds) => C3_Maximal

\* the sizes of the groups, and the size of the group of a station
GroupCount(gs) == Len(gs)
GroupSizeOf(gs, id) ==
    Len(gs[CHOOSE k \in DOMAIN gs : id \in MemberIds(gs[k])].stations)

C5_InvalidExcluded ==
    pc # "start" =>
        /\ \A i \in DOMAIN stopsArray : stopsArray[i].stop_id \in FiniteIds
        /\ \A e \in DOMAIN mergeQueue :
              /\ stopsArray[mergeQueue[e].i].stop_id \in FiniteIds
              /\ stopsArray[mergeQueue[e].j].stop_id \in FiniteIds
        /\ \A k \in GroupIndexes : MemberIds(groups[k]) \subseteq FiniteIds

\* C6: every group has a non-empty groupName, no two groups of a run share a
\* groupName, and a multi-station group whose common prefix is shorter than
\* 3 characters is labelled `Cluster (<first member name>, ...)`.  Stated for
\* the runs whose input coordinates are all finite numbers.
C6_LabelsUnique ==
    (pc = "done" /\ FiniteIds = {stops[k].stop_id : k \in DOMAIN stops}) =>
        /\ \A k \in GroupIndexes : groups[k].groupName # <<>>
        /\ \A k1 \in GroupIndexes : \A k2 \in GroupIndexes :
              k1 # k2 => groups[k1].groupName # groups[k2].groupName
        /\ \A k \in GroupIndexes :
              LET names == [m \in DOMAIN groups[k].stations |->
                               groups[k].stations[m].stop_name]
              IN  (groups[k].isGroup /\ Len(longestCommonPrefix(names)) < MIN_GROUP_NAME_LENGTH)
                      => groups[k].groupName = ClusterLabel(StableSort(names, StrLess)[1])

(***************************************************************************)
(* Properties of searchStationGroups                                       *)
(***************************************************************************)
lowerQuery == toLowerCase(searchTerm)

NameHas(g) == includes(toLowerCase(g.groupName), lowerQuery)
DisplayHas(g) == includes(toLowerCase(g.displayName), lowerQuery)
CountryHas(g) == includes(toLowerCase(g.stop_country), lowerQuery)
MemberHas(g) ==
    \E m \in DOMAIN g.stations : includes(toLowerCase(g.stations[m].stop_name), lowerQuery)

Passes(g) == NameHas(g) \/ DisplayHas(g) \/ CountryHas(g) \/ MemberHas(g)

InResults(g) == \E i \in DOMAIN results : results[i] = g

PassingCount == Cardinality({k \in DOMAIN groups : Passes(groups[k])})

\* C7: a returned group passes the filter test (query is a substring of
\* group name, display name, country code or a member's name, without case),
\* and a passing group is missing only when the limit cut the list.
C7_Filter ==
    (pc = "searched" /\ searchTerm # <<>>) =>
        /\ \A i \in DOMAIN results :
              Passes(results[i]) /\ \E k \in DOMAIN groups : groups[k] = results[i]
        /\ \A k \in DOMAIN groups :
              (Passes(groups[k]) /\ ~InResults(groups[k])) =>
                  (Len(results) = limit /\ limit < PassingCount)

\* a group found only through a member's name or only through its country
\* is returned, a group that fails the test is left out
C7_Witness ==
    /\ pc = "searched"
    /\ \E i \in DOMAIN results :
          /\ ~NameHas(results[i]) /\ ~DisplayHas(results[i])
          /\ (MemberHas(results[i]) \/ CountryHas(results[i]))
    /\ \E k \in DOMAIN groups : ~Passes(groups[k])
    /\ Len(results) < limit

ExactName(g) == toLowerCase(g.groupName) = lowerQuery
ExactDisplay(g) == toLowerCase(g.displayName) = lowerQuery
StartsName(g) == startsWith(toLowerCase(g.groupName), lowerQuery)
StartsDisplay(g) == startsWith(toLowerCase(g.displayName), lowerQuery)

\* C8: in the result, groups whose groupName equals the query (without case)
\* come before those whose groupName does not; among groups equal on that,
\* those whose displayName equals the query come before the others.
C8_ExactFirst ==
    pc = "searched" =>
        \A i \in DOMAIN results : \A j \in DOMAIN results :
            /\ (ExactName(results[i]) /\ ~ExactName(results[j])) => i < j
            /\ (/\ ExactName(results[i]) = ExactName(results[j])
                /\ ExactDisplay(results[i]) /\ ~ExactDisplay(results[j])) => i < j

\* an exactly named entry together with one that only starts with the query,
\* and of two exactly named entries the single station, whose display name
\* is exact, ahead of the multi-station group
C8_Witness ==
    /\ pc = "searched"
    /\ \E i \in DOMAIN results : \E j \in DOMAIN results :
          /\ ExactName(results[i])
          /\ ~ExactName(results[j]) /\ StartsName(results[j])
    /\ \E i \in DOMAIN results : \E j \in DOMAIN results :
          /\ ExactName(results[i]) /\ ExactName(results[j])
          /\ ExactDisplay(results[i]) /\ ~ExactDisplay(results[j])
          /\ results[j].isGroup

\* C9: a returned group whose group name starts with the query comes before
\* every returned group whose group name holds the query only further on.
C9_PrefixFirst ==
    pc = "searched" =>
        \A i \in DOMAIN results : \A j \in DOMAIN results :
            (/\ StartsName(results[i])
             /\ NameHas(results[j]) /\ ~StartsName(results[j])) => i < j

\* a single station that starts with the query ahead of a larger group that
\* holds it further on
C9_Witness ==
    /\ pc = "searched"
    /\ \E i \in DOMAIN results : \E j \in DOMAIN results :
          /\ StartsName(results[i]) /\ ~ExactName(results[i]) /\ ~results[i].isGroup
          /\ NameHas(results[j]) /\ ~StartsName(results[j]) /\ results[j].isGroup

SameTiers(a, b) ==
    /\ ExactName(a) = ExactName(b)
    /\ ExactDisplay(a) = ExactDisplay(b)
    /\ StartsName(a) = StartsName(b)
    /\ StartsDisplay(a) = StartsDisplay(b)

\* C10: among results equal on the exact and prefix tiers, multi-station
\* groups come before single stations, and a group with more stations comes
\* before a group with fewer.
C10_GroupsFirst ==
    pc = "searched" =>
        \A i \in DOMAIN results : \A j \in DOMAIN results :
            SameTiers(results[i], results[j]) =>
                /\ (results[i].isGroup /\ ~results[j].isGroup) => i < j
                /\ (/\ results[i].isGroup /\ results[j].isGroup
                    /\ Len(results[i].stations) > Len(results[j].stations)) => i < j

\* a group ahead of a single station whose display name sorts first, and a
\* group of three ahead of a group of two
C10_Witness ==
    /\ pc = "searched"
    /\ \E i \in DOMAIN results : \E j \in DOMAIN results :
          /\ SameTiers(results[i], results[j])
          /\ results[i].isGroup /\ ~results[j].isGroup
          /\ localeCompare(toLowerCase(results[j].displayName),
                           toLowerCase(results[i].displayName)) < 0
    /\ \E i \in DOMAIN results : \E j \in DOMAIN results :
          /\ SameTiers(results[i], results[j])
          /\ results[i].isGroup /\ results[j].isGroup
          /\ Len(results[i].stations) > Len(results[j].stations)

\* two results the comparator's earlier tiers do not tell apart
TiedBeforeDisplay(a, b) ==
    /\ SameTiers(a, b)
    /\ a.isGroup = b.isGroup
    /\ (a.isGroup => Len(a.stations) = Len(b.stations))

\* C11: results that tie on the exact, prefix, group and member-count tiers
\* appear in lexicographic order of their lower-cased display names.
C11_DisplayOrder ==
    pc = "searched" =>
        \A i \in DOMAIN results : \A j \in DOMAIN results :
            (/\ TiedBeforeDisplay(results[i], results[j])
             /\ StrLess(toLowerCase(results[i].displayName),
                        toLowerCase(results[j].displayName))) => i < j

\* two tied results that the list held in the opposite order
C11_Witness ==
    /\ pc = "searched"
    /\ \E i \in DOMAIN results : \E j \in DOMAIN results :
          /\ i < j
          /\ TiedBeforeDisplay(results[i], results[j])
          /\ results[i].displayName # results[j].displayName
          /\ \E ki \in DOMAIN groups : \E kj \in DOMAIN groups :
                groups[ki] = results[i] /\ groups[kj] = results[j] /\ kj < ki

\* C12: the result holds at most limit groups.
C12_AtMostLimit ==
    pc = "searched" => Len(results) <= limit

\* more groups pass the filter than the limit lets through
C12_Witness ==
    /\ pc = "searched"
    /\ searchTerm # <<>>
    /\ limit > 0
    /\ PassingCount > limit
    /\ Len(results) = limit

\* C13: an empty query gives an empty result, for every list and limit.
C13_EmptyQuery ==
    (pc = "searched" /\ searchTerm = <<>>) => results = <<>>

\* an empty query on a list of groups with room in the limit
C13_Witness ==
    /\ pc = "searched"
    /\ searchTerm = <<>>
    /\ Len(groups) >= 2
    /\ limit >= Len(groups)
    /\ results = <<>>

(***************************************************************************)
(* Properties of the group synthesis and of longestCommonPrefix            *)
(***************************************************************************)
\* the one group the synthesis built
theGroup == groups[1]

\* the non-empty country codes of a member list, their counts and the
\* position of their first occurrence
CodesOf(st) == {st[i].stop_country : i \in DOMAIN st} \ {<<>>}
CountOf(st, c) == Cardinality({i \in DOMAIN st : st[i].stop_country = c})
FirstAt(st, c) == Min({i \in DOMAIN st : st[i].stop_country = c})
MostFrequent(st) == {c \in CodesOf(st) : \A d \in CodesOf(st) : CountOf(st, d) <= CountOf(st, c)}

\* C14 (as stated): the dominant country of a multi-station group is the most
\* frequent non-empty code; among tied codes the one whose first occurrence
\* in the sorted member list is earliest; the empty string without any code.
C14_TiesEarliest ==
    (pc = "synthesized" /\ Len(cluster) >= 2) =>
        LET st == theGroup.stations
        IN  IF CodesOf(st) = {} THEN theGroup.stop_country = <<>>
            ELSE /\ theGroup.stop_country \in MostFrequent(st)
                 /\ \A d \in MostFrequent(st) :
                        FirstAt(st, theGroup.stop_country) <= FirstAt(st, d)

\* C14 (amended): as above, but among tied codes the one whose first
\* occurrence in the sorted member list is latest is chosen.
C14_TiesLatest ==
    (pc = "synthesized" /\ Len(cluster) >= 2) =>
        LET st == theGroup.stations
        IN  IF CodesOf(st) = {} THEN theGroup.stop_country = <<>>
            ELSE /\ theGroup.stop_country \in MostFrequent(st)
                 /\ \A d \in MostFrequent(st) :
                        FirstAt(st, d) <= FirstAt(st, theGroup.stop_country)

\* three codes tie, the members came in another order than the sorted one,
\* and the code met last in the sorted list is the group's country
C14_Witness ==
    /\ pc = "synthesized"
    /\ Len(cluster) = 3
    /\ theGroup.stations # cluster
    /\ Cardinality(MostFrequent(theGroup.stations)) = 3
    /\ theGroup.stop_country = theGroup.stations[3].stop_country

\* n in decimal, for the counts the model reaches
Decimal(n) == <<Digits[n + 1]>>

\* C15: isGroup is true exactly for two or more members; a one-member group
\* is named as its station; a group of N >= 2 stations has the display name
\* "<groupName> (N stations)", N being the number of stations in the group.
C15_GroupFlagAndLabel ==
    pc = "synthesized" =>
        LET g == theGroup
            n == Len(g.stations)
        IN  /\ n = Len(cluster)
            /\ g.isGroup <=> n >= 2
            /\ n = 1 => /\ g.groupName = cluster[1].stop_name
                        /\ g.displayName = cluster[1].stop_name
            /\ n >= 2 => g.displayName =
                            g.groupName \o <<" ", "(">> \o Decimal(n)
                              \o <<" ", "s", "t", "a", "t", "i", "o", "n", "s", ")">>

\* a group of three under the common prefix of its names
C15_Witness ==
    /\ pc = "synthesized"
    /\ Len(cluster) = 3
    /\ theGroup.isGroup
    /\ theGroup.groupName = <<"a", "b", "c">>
    /\ Len(theGroup.stations) = 3

\* the names given to longestCommonPrefix
names == StationNamesOf(cluster)

\* the longest leading substring shared by all the strings
SharedPrefix(strings) ==
    LET shortest == Min({Len(strings[k]) : k \in DOMAIN strings})
        shared == {i \in 0..shortest :
                     \A k \in DOMAIN strings : SubSeq(strings[k], 1, i) = SubSeq(strings[1], 1, i)}
    IN  SubSeq(strings[1], 1, CHOOSE i \in shared : \A j \in shared : j <= i)

\* s without its leading and trailing blanks, and without the trailing only
Blank(s) == \A k \in DOMAIN s : s[k] = " "
Stripped(s) ==
    CHOOSE t \in {SubSeq(s, a, b) : a \in 1..(Len(s) + 1), b \in 0..Len(s)} :
        /\ \E a \in 1..(Len(s) + 1) : \E b \in (a - 1)..Len(s) :
              /\ t = SubSeq(s, a, b)
              /\ Blank(SubSeq(s, 1, a - 1))
              /\ Blank(SubSeq(s, b + 1, Len(s)))
        /\ t # <<>> => (t[1] # " " /\ t[Len(t)] # " ")
StrippedRight(s) ==
    CHOOSE t \in {SubSeq(s, 1, b) : b \in 0..Len(s)} :
        /\ Blank(SubSeq(s, Len(t) + 1, Len(s)))
        /\ t # <<>> => t[Len(t)] # " "

\* C16 (as stated): for a non-empty list the result is the longest leading
\* substring shared by all names, without its trailing white space.
C16_SharedPrefixTrailingTrim ==
    (pc = "named" /\ Len(cluster) >= 1) =>
        commonPrefix = StrippedRight(SharedPrefix(names))

\* C16 (amended): ... without its leading and trailing white space.
C16_SharedPrefixTrimmed ==
    (pc = "named" /\ Len(cluster) >= 1) =>
        commonPrefix = Stripped(SharedPrefix(names))

\* three different names that all start with a blank: the shared prefix
\* " a" comes back as "a"
C16_Witness ==
    /\ pc = "named"
    /\ Len(cluster) = 3
    /\ \E i \in 1..3 : \E j \in 1..3 : names[i] # names[j]
    /\ SharedPrefix(names) = <<" ", "a">>
    /\ commonPrefix = <<"a">>

\* C17 (as stated): one name comes back unchanged, whatever white space it
\* has; the empty list gives the empty string.
C17_SingleUnchanged ==
    pc = "named" =>
        /\ Len(cluster) = 1 => commonPrefix = names[1]
        /\ Len(cluster) = 0 => commonPrefix = <<>>

\* C17 (amended): one name comes back without its leading and trailing
\* white space; the empty list gives the empty string.
C17_SingleTrimmed ==
    pc = "named" =>
        /\ Len(cluster) = 1 => commonPrefix = Stripped(names[1])
        /\ Len(cluster) = 0 => commonPrefix = <<>>

\* a single name that starts with a blank, returned without it
C17_Witness ==
    /\ pc = "named"
    /\ Len(cluster) = 1
    /\ names[1][1] = " "
    /\ commonPrefix = SubSeq(names[1], 2, Len(names[1]))

(***************************************************************************)
(* Properties of the order of the merge queue                              *)
(***************************************************************************)
\* queue entry a is to be processed before queue entry b
QueueBefore(a, b) ==
    \/ a.dist.v < b.dist.v
    \/ /\ a.dist.v = b.dist.v
       /\ \/ a.i < b.i
          \/ a.i = b.i /\ a.j < b.j

\* C18: the candidate pairs are processed in ascending distance, pairs of
\* equal distance in the order of their indices in the input; the merge loop
\* takes them one by one in that order and a finished run has taken them all,
\* so the input order and D fix the order of all merges.
C18_FixedOrder ==
    /\ pc \in {"merging", "done"} =>
          /\ \A a \in DOMAIN mergeQueue : \A b \in DOMAIN mergeQueue :
                a < b => QueueBefore(mergeQueue[a], mergeQueue[b])
          /\ processed \in 0..Len(mergeQueue)
    /\ pc = "done" => processed = Len(mergeQueue)

\* a finished run whose queue held pairs of equal distance behind a closer pair
C18_Witness ==
    /\ pc = "done"
    /\ Len(groups) >= 2
    /\ \E a \in DOMAIN mergeQueue : \E b \in DOMAIN mergeQueue : \E c \in DOMAIN mergeQueue :
          /\ a < b /\ b < c
          /\ mergeQueue[a].dist.v < mergeQueue[b].dist.v
          /\ mergeQueue[b].dist = mergeQueue[c].dist

Untouched(p) == outputFile[p].kind \in {"absent", "previous"}

\* station-groups.json at place p holds the whole result of this run
WrittenInFull(p) ==
    /\ outputFile[p] = [kind |-> "groups", data |-> groups]
    /\ p = PlaceOf(runningInDocker)
    /\ stopsData.kind = "stops"
    /\ groups = groupStations(stopsData.data, maxDistance)

\* the file main read could not be read or parsed / the clustering threw
ReadFailed == pc = "exited" /\ stopsData = <<>>
ClusteringFailed == pc = "exited" /\ stopsData # <<>> /\ stopsData.kind # "stops"

\* C20: the output file is written only after groupStations has completed;
\* a run whose read or clustering fails exits with a failure status and
\* leaves the file untouched; so at every moment an output file is either as
\* the run found it or holds the whole result of a run that ended well.
C20_AllOrNothing ==
    /\ pc \in {"main", "read", "generated"} => \A p \in Places : Untouched(p)
    /\ (ReadFailed \/ ClusteringFailed) =>
          exitCode = 1 /\ \A p \in Places : Untouched(p)
    /\ \A p \in Places :
          \/ Untouched(p)
          \/ pc = "exited" /\ exitCode = 0 /\ WrittenInFull(p)

\* the part of C20 that is about the steps before the write
C20_UntouchedBeforeWrite ==
    /\ pc \in {"main", "read", "generated"} => \A p \in Places : Untouched(p)
    /\ (ReadFailed \/ ClusteringFailed) =>
          exitCode = 1 /\ \A p \in Places : Untouched(p)
    /\ \A p \in Places : outputFile[p].kind = "groups" => WrittenInFull(p)

(***************************************************************************)
(* Properties of groupStations on inputs without valid stations            *)
(***************************************************************************)
\* C21: a run on an empty mapping, or on one whose stations all have invalid
\* (missing, unparseable or not finite) coordinates, ends with an empty list
\* of groups.
C21_NoValidStationNoGroup ==
    (pc = "done" /\ FiniteIds = {}) => groups = <<>>

\* C21 for the inputs whose stations all fail the filter of stopsArray
C21_NoKeptStationNoGroup ==
    (pc = "done" /\ KeptIds = {}) => groups = <<>>

(***************************************************************************)
(* Properties of the union-find state of the merge loop                    *)
(***************************************************************************)
\* the root a station's parent pointers lead to, after at most n steps
RECURSIVE Follow(_, _, _)
Follow(par, x, n) == IF par[x] = x \/ n = 0 THEN x ELSE Follow(par, par[x], n - 1)
RootOf(par, x) == Follow(par, x, Len(par))

\* the stations whose pointers lead to r
MembersOf(par, r) == {x \in DOMAIN par : RootOf(par, x) = r}

\* the stations clusterStations lists for r
ListedAt(r) == {clusterStations[r][m] : m \in DOMAIN clusterStations[r]}

\* clusterStations agrees with the union-find forest
MembershipCurrent ==
    pc \in {"merging", "done"} =>
        \A r \in DOMAIN parent :
            IF parent[r] = r
            THEN /\ ListedAt(r) = MembersOf(parent, r)
                 /\ Len(clusterStations[r]) = Cardinality(MembersOf(parent, r))
            ELSE clusterStations[r] = <<>>

\* a step of the merge loop that merged two clusters found all the stations
\* of the one within maxDistance of all the stations of the other
MergeOnlyIfAllWithin ==
    (pc = "merging" /\ pc' = "merging"
        /\ \E x \in DOMAIN parent : RootOf(parent', x) # RootOf(parent, x)) =>
        LET e == mergeQueue[processed + 1]
        IN  \A a \in MembersOf(parent, RootOf(parent, e.i)) :
            \A b \in MembersOf(parent, RootOf(parent, e.j)) :
                Within(stopsArray[a], stopsArray[b], maxDistance)

\* C23: at every step of the merge loop clusterStations of a root is exactly
\* the set of stations whose find() is that root, clusterStations of any other
\* index is empty, and a pair is merged only if every station of the current
\* cluster of i is within D of every station of the current cluster of j.
C23_CurrentMembership ==
    []MembershipCurrent /\ [][MergeOnlyIfAllWithin]_vars

\* the loop has built a cluster of three and has refused a later pair whose
\* two stations are within maxDistance of each other
C23_Witness ==
    /\ pc = "merging"
    /\ \E r \in DOMAIN parent : Len(clusterStations[r]) = 3
    /\ \E k \in 1..processed :
          RootOf(parent, mergeQueue[k].i) # RootOf(parent, mergeQueue[k].j)

(***************************************************************************)
(* Properties of the greedy variant and of the two variants together       *)
(***************************************************************************)
\* the largest distance between a station of cluster i and one of cluster j,
\* as the clusters are now (0 when no pair has a distance that compares)
CurrentMaxDist(i, j) ==
    LET pairDists == {calculateDistance(stopsArray[clusters[i][a]], stopsArray[clusters[j][b]]) :
                         a \in DOMAIN clusters[i], b \in DOMAIN clusters[j]}
        finite == {d \in pairDists : d.k = "num"}
    IN  IF finite = {} THEN 0
        ELSE (CHOOSE d \in finite : \A e \in finite : e.v <= d.v).v

\* C24: every value maxDistCache holds is the complete-linkage distance of
\* the clusters now stored at the two indices of its key, so an answer taken
\* from the cache is never stale.
C24_CacheCurrent ==
    pc \in {"scan", "merge", "convert", "returned"} =>
        \A key \in DOMAIN maxDistCache :
            /\ key[1] \in DOMAIN clusters
            /\ key[2] \in DOMAIN clusters
            /\ maxDistCache[key] = CurrentMaxDist(key[1], key[2])

\* after a merge that shifted cluster indices, the next search has filled the
\* cache again, with a cluster of two among its keys
C24_Witness ==
    /\ pc = "merge"
    /\ Len(clusters) >= 3
    /\ \E k \in 1..(Len(clusters) - 1) : Len(clusters[k]) >= 2 /\ Len(clusters[k + 1]) = 1
    /\ Cardinality(DOMAIN maxDistCache) >= 3
    /\ \E key \in DOMAIN maxDistCache : maxDistCache[key] > 0

\* the partition a list of groups makes of the stations, as sets of stop_ids
PartitionOf(gs) == {MemberIds(gs[k]) : k \in DOMAIN gs}

\* C25: for every input and threshold the union-find variant and the greedy
\* variant return the same partition of the stations into groups.  Stated for
\* the inputs whose coordinates are all finite numbers.
C25_SamePartition ==
    (pc = "returned" /\ FiniteIds = {stops[k].stop_id : k \in DOMAIN stops}) =>
        PartitionOf(greedyGroups) = PartitionOf(groups)

\* the parent pointers lead every station to a root
ParentAcyclic ==
    \A x \in DOMAIN parent : parent[RootOf(parent, x)] = RootOf(parent, x)

\* the greedy loop never runs out of clusters while there are stations
ClustersRemain ==
    pc \in {"scan", "merge", "convert", "returned"} =>
        /\ Len(stopsArray) >= 1 => Len(clusters) >= 1
        /\ pc = "merge" => Len(clusters) >= 2
        /\ Len(clusters) <= Len(stopsArray)

\* a step of either loop: the next pair of the queue, one cluster fewer, or
\* the way out
LoopProgress ==
    /\ (pc = "merging" /\ pc' = "merging") =>
          /\ processed' = processed + 1
          /\ processed' <= Len(mergeQueue)
          /\ mergeQueue' = mergeQueue
    /\ pc = "scan" => (pc' \in {"merge", "convert"} /\ clusters' = clusters)
    /\ pc = "merge" => (pc' = "scan" /\ Len(clusters') = Len(clusters) - 1)

\* C30: clustering terminates: the parent pointers never form a cycle other
\* than a root's self-loop and each candidate pair is processed once; every
\* iteration of the greedy loop removes exactly one cluster or exits, so at
\* most N-1 merges happen; and both variants return.
C30_Terminates ==
    /\ [](pc # "returned" => StepEnabled)
    /\ []ParentAcyclic
    /\ []ClustersRemain
    /\ [][LoopProgress]_vars
    /\ <>(pc = "returned")

\* four stations that the greedy variant has merged into one cluster in three
\* merges, after the union-find variant linked them as well
C30_Witness ==
    /\ pc = "convert"
    /\ Len(stopsArray) = 4
    /\ Len(clusters) = 1
    /\ \E x \in DOMAIN parent : parent[x] # x

(***************************************************************************)
(* Properties of the comparator of searchStationGroups                     *)
(***************************************************************************)
\* C29: the comparator is a consistent ordering for every query: for all
\* groups a, b, c, compare(a, b) < 0 iff compare(b, a) > 0, and
\* compare(a, b) <= 0 with compare(b, c) <= 0 implies compare(a, c) <= 0, so
\* in the sorted list every entry stands before every later one whatever pairs
\* the sort compared.
C29_ConsistentOrder ==
    LET q == toLowerCase(searchTerm)
        cmp == [i \in 1..3 |-> [j \in 1..3 |-> compare(groups[i], groups[j], q)]]
    IN  /\ pc = "filtered" =>
              /\ \A i \in 1..3 : \A j \in 1..3 : (cmp[i][j] < 0) <=> (cmp[j][i] > 0)
              /\ \A i \in 1..3 : \A j \in 1..3 : \A k \in 1..3 :
                    (cmp[i][j] <= 0 /\ cmp[j][k] <= 0) => cmp[i][k] <= 0
        /\ pc = "sorted" =>
              \A i \in 1..3 : \A j \in 1..3 :
                  i < j => compare(results[i], results[j], q) <= 0

\* a single station, a group of two and a group of three, sorted into
\* another order than they came in
C29_Witness ==
    /\ pc = "sorted"
    /\ {Len(results[k].stations) : k \in DOMAIN results} = {1, 2, 3}
    /\ results # groups

(***************************************************************************)
(* Properties of the App: selection, stored selection and trips shown      *)
(***************************************************************************)
SelectedNames == {selectedStationGroups[k].groupName : k \in DOMAIN selectedStationGroups}

Offered == {displayStationGroups(groups, groupingEnabled)[k] :
               k \in DOMAIN displayStationGroups(groups, groupingEnabled)}

NoDuplicateNames ==
    \A i \in DOMAIN selectedStationGroups : \A j \in DOMAIN selectedStationGroups :
        i # j => selectedStationGroups[i].groupName # selectedStationGroups[j].groupName

\* sel with its k-th entry taken out
WithoutEntry(sel, k) ==
    [i \in 1..(Len(sel) - 1) |-> IF i < k THEN sel[i] ELSE sel[i + 1]]

\* a handler that changes the selection appends one offered group whose name
\* was not selected, or takes out one entry and leaves the others in place
AddOrRemoveStep ==
    (AppReady /\ selectedStationGroups' # selectedStationGroups) =>
        \/ \E g \in Offered :
              /\ g.groupName \notin SelectedNames
              /\ selectedStationGroups' = Append(selectedStationGroups, g)
        \/ \E k \in DOMAIN selectedStationGroups :
              selectedStationGroups' = WithoutEntry(selectedStationGroups, k)

\* C27: after any sequence of add and remove actions the selection never
\* holds two entries with the same groupName: adding a group whose groupName
\* is already selected leaves the selection unchanged, and removing a
\* groupName removes the entry with that name and leaves every other entry
\* and their order unchanged.
C27_NoDuplicateSelection ==
    []NoDuplicateNames /\ [][AddOrRemoveStep]_vars

\* two groups are selected after a change by the user, and another group with
\* the name of a selected one is offered
C27_Witness ==
    /\ pc = "app_idle"
    /\ Len(selectedStationGroups) = 2
    /\ \E g \in Offered :
          /\ g.groupName \in SelectedNames
          /\ \A k \in DOMAIN selectedStationGroups : selectedStationGroups[k] # g

\* the stop ids of the stations of the selected groups
SelectedIds ==
    UNION {{selectedStationGroups[g].stations[m].stop_id :
               m \in DOMAIN selectedStationGroups[g].stations} :
              g \in DOMAIN selectedStationGroups}

\* the trip stops of a trip
StopsOf(tripId) == {tripStops[k] : k \in {x \in DOMAIN tripStops : tripStops[x].trip_id = tripId}}

\* the trips with a stop at a selected station
MatchingTrips ==
    {trips[k] : k \in {x \in DOMAIN trips :
                          \E ts \in StopsOf(trips[x].trip_id) : ts.stop_id \in SelectedIds}}

\* C22: once the data are loaded and the effects of a change of the selection
\* have run, filteredTrips holds exactly the trips that have at least one stop
\* at a station of a selected group, each with all of its stops ordered by
\* stop_sequence; with nothing selected filteredTrips is empty.
C22_CompleteTrips ==
    AppReady =>
        /\ {filteredTrips[k].trip : k \in DOMAIN filteredTrips} = MatchingTrips
        /\ Len(filteredTrips) = Cardinality(MatchingTrips)
        /\ \A k \in DOMAIN filteredTrips :
              LET shown == filteredTrips[k].stops
              IN  /\ {shown[i] : i \in DOMAIN shown} = StopsOf(filteredTrips[k].trip.trip_id)
                  /\ Len(shown) = Cardinality(StopsOf(filteredTrips[k].trip.trip_id))
                  /\ \A i \in DOMAIN shown : \A j \in DOMAIN shown :
                        i < j => shown[i].stop_sequence <= shown[j].stop_sequence
        /\ selectedStationGroups = <<>> => filteredTrips = <<>>

\* of two trips one is shown, with three stops of which the first is at no
\* selected station, and the file holds the stops in another order
C22_Witness ==
    /\ pc = "app_idle"
    /\ Len(trips) = 2
    /\ Len(filteredTrips) = 1
    /\ Len(filteredTrips[1].stops) = 3
    /\ filteredTrips[1].stops[1].stop_id \notin SelectedIds
    /\ filteredTrips[1].stops[1] # tripStops[1]

\* no save before the load of the restore step
SaveAfterLoad == "save" \in calls => "load" \in calls

\* the stored item changes only after the restoration, and then to the selection
StoredKept ==
    storage' # storage =>
        /\ isRestoredRef
        /\ "load" \in calls
        /\ storage' = JSONstringify(selectedStationGroups)

\* the selection is what loadSelectedStationGroups gives
SelectionIsStored == selectedStationGroups = loadSelectedStationGroups(storage)

\* C26 as stated: saveSelectedStationGroups is never called before
\* loadSelectedStationGroups has been called for the restore step, and after
\* startup settles the in-memory selection equals the stored one.
C26_SettledEqualsStored ==
    /\ SaveAfterLoad
    /\ pc \in {"app_started", "app_error"} => SelectionIsStored

\* C26: saveSelectedStationGroups is never called before
\* loadSelectedStationGroups has been called for the restore step, the stored
\* item is never overwritten before the restoration, and after startup settles
\* with a non-empty list of station groups loaded the in-memory selection
\* equals the stored one.
C26_SaveAfterRestore ==
    /\ []SaveAfterLoad
    /\ [][StoredKept]_vars
    /\ []((pc = "app_started" /\ Len(groups) > 0) => SelectionIsStored)

\* startup has restored two stored groups and the save effect has run
C26_Witness ==
    /\ pc = "app_started"
    /\ Len(selectedStationGroups) = 2
    /\ "save" \in calls
    /\ storage.kind = "json"

(***************************************************************************)
(* Properties of the suggestions of StationAutocomplete                    *)
(***************************************************************************)
\* the unselected groups that match the search term
UnselectedMatches ==
    {groups[k] : k \in {x \in DOMAIN groups :
                           /\ groups[x].groupName \notin SelectedNames
                           /\ matchesSearch(groups[x], toLowerCase(searchTerm))}}

\* h is ranked before g
RankedBefore(h, g) ==
    LET c == compare(h, g, toLowerCase(searchTerm))
    IN  \/ c < 0
        \/ c = 0 /\ \E i \in DOMAIN groups : \E j \in DOMAIN groups :
                       i < j /\ groups[i] = h /\ groups[j] = g

Suggested == {results[k] : k \in DOMAIN results}

\* C28: no group whose groupName is selected is ever suggested, and an
\* unselected group that matches the query is missing from the suggestions
\* only if 20 unselected matching groups are ranked before it, so whenever some
\* unselected group matches, at least one suggestion is offered.
C28_TopUnselected ==
    pc = "suggested" =>
        /\ \A g \in Suggested : g.groupName \notin SelectedNames
        /\ \A g \in UnselectedMatches \ Suggested :
              Cardinality({h \in UnselectedMatches : RankedBefore(h, g)}) >= SuggestLimit
        /\ UnselectedMatches # {} => results # <<>>

\* the part of C28 about selected groups alone
C28_NoSelectedSuggested ==
    pc = "suggested" => \A g \in Suggested : g.groupName \notin SelectedNames

====
